---- MODULE Spec2Model ----
(***************************************************************************)
(* State-machine model of the watchlist / plans / goals / roulette PWA.    *)
(*                                                                         *)
(*   Spec          session gate, routing and login form                    *)
(*   SpecMirror    the three List Mirror pages (watchlist, plans, goals)   *)
(*   SpecRoulette  the roulette page, with the fairness of the browser's   *)
(*                 timer queue                                             *)
(*   SpecDetails   the details panel of the watchlist page                 *)
(*   SpecProgress  the progress record of a goal, read and built           *)
(*   SpecPool      the candidates of the roulette                          *)
(*   SpecSpinCalls the roulette with spin() called during a draw           *)
(*   SpecDraw      draws over pools of many sizes, through their timers    *)
(*   SpecRouting   the redirects of the route tree, with their fairness    *)
(*   SpecLogin     the login form, with the fairness of its continuations  *)
(*   SpecSubs      the listeners of the list pages over mounts, unmounts   *)
(*                 and identity changes                                    *)
(*   SpecAdds      the watchlist add flow with the collection followed     *)
(*                                                                         *)
(* Strings the code transforms (the username) are sequences of one-letter  *)
(* strings, so that trimming and lower-casing are computed.                *)
(***************************************************************************)
EXTENDS Integers, Sequences, FiniteSets, TLC

VARIABLES
    \* ---- auth context (AuthProvider) and backend session
    authLoading,    \* useAuth().loading
    user,           \* useAuth().user
    session,        \* identity the auth service holds for this browser
    \* ---- router
    pathname,       \* location.pathname
    locState,       \* location.state.from, or NoState
    screen,         \* element the route tree renders
    \* ---- LoginPage
    username, pass, loading, err,
    signIn,         \* the signInWithEmailAndPassword call in flight, or NoCall
    signInCalls,    \* number of calls made to the sign-in service
    logoutPending,  \* HomeLayout.logout is awaiting signOut
    \* ---- PlansPage
    plans,          \* local mirror of the plans collection
    plansLoading,   \* PlansPage loading
    planForm,       \* create form: title, description, linksText
    \* ---- WatchlistPage
    items,          \* local mirror of the watchlist collection
    selected,       \* selected title, or NoSelection
    details,        \* details of the panel, or NoDetails
    detailsLoading,
    detailsError,   \* message, or "null"
    detailFetches,  \* getDetails calls in flight, oldest first, each with
                    \* the cancelled flag of the effect run that made it
    \* ---- GoalsPage
    goals,          \* local mirror of the goals collection, normalised
    goalsLoading,   \* GoalsPage loading
    goalForm,       \* the form: editingId and the fields
    \* ---- backend calls of the list pages
    sub,            \* collections of the live onSnapshot listeners of the list pages
    writes,         \* write calls of the mounted page in flight, oldest first
    \* ---- RoulettePage
    roulettePlans,  \* plans of RoulettePage
    rouletteWatch,  \* watch of RoulettePage
    source,         \* "mix" | "plans" | "watch"
    includeDone,
    spinning,
    highlight,      \* a candidate or NoCandidate
    winner,         \* a candidate or NoCandidate
    rouletteErr,    \* err of RoulettePage
    timeoutsRef,    \* timeoutsRef.current: the ids pushed
    timers,         \* timers set with window.setTimeout and not yet run
    seq,            \* seq of the last spin() that drew
    startPool,      \* pool the last spin() drew from
    draws,          \* draws started since the page mounted
    \* ---- history
    delivered,      \* documents of the last notification the page received
    watchlistDocs,  \* documents of the watchlist collection, as far as followed
    lastOp          \* name of the handler that ran last

authVars == <<authLoading, user, session>>
routeVars == <<pathname, locState, screen>>
loginVars == <<username, pass, loading, err, signIn, signInCalls>>

plansVars == <<plans, plansLoading, planForm>>
watchVars == <<items, selected>>
detailsVars == <<details, detailsLoading, detailsError, detailFetches>>
goalsVars == <<goals, goalsLoading, goalForm>>
mirrorVars == <<plansVars, watchVars, goalsVars, sub, delivered, watchlistDocs, writes>>

rouletteVars == <<roulettePlans, rouletteWatch, source,
                  includeDone, spinning, highlight, winner, rouletteErr,
                  timeoutsRef, timers, seq, startPool, draws>>

vars == <<authLoading, user, session, pathname, locState, screen,
          username, pass, loading, err, signIn, signInCalls, logoutPending,
          plans, plansLoading, planForm, items, selected,
          details, detailsLoading, detailsError, detailFetches,
          goals, goalsLoading, goalForm, sub, delivered, watchlistDocs, writes,
          roulettePlans, rouletteWatch, source, includeDone,
          spinning, highlight, winner, rouletteErr, timeoutsRef, timers, seq,
          startPool, draws, lastOp>>

(***************************************************************************)
(* Values                                                                  *)
(***************************************************************************)
NoUser == "null"
NoState == "no-state"
NoCall == [st |-> "none"]
\* before the first notification nothing has been delivered
NoSnapshot == << >>
Undefined == "undefined"

\* Bound on the sign-in call counter.
MaxSignInCalls == 2

Uids == {"uid-camilo", "uid-diana"}

ProtectedPages == {"/watchlist", "/planes", "/metas", "/ruleta"}
\* "/otra" stands for every path no route matches.
Paths == ProtectedPages \cup {"/", "/login", "/otra"}

\* ---- usernames as the user types them
U_empty == << >>
U_camilo == <<"c", "a", "m", "i", "l", "o">>
U_diana == <<"d", "i", "a", "n", "a">>
U_CamiloPadded == <<" ", "C", "a", "m", "i", "l", "o", " ">>
U_DIANA == <<"D", "I", "A", "N", "A">>
U_bob == <<"b", "o", "b">>
U_constructor == <<"c", "o", "n", "s", "t", "r", "u", "c", "t", "o", "r">>
U_Proto == <<"_", "_", "P", "r", "o", "t", "o", "_", "_", " ">>
U_proto == <<"_", "_", "p", "r", "o", "t", "o", "_", "_">>

Usernames == {U_empty, U_camilo, U_CamiloPadded, U_DIANA, U_bob,
              U_constructor, U_Proto}
Passwords == {"", "secreta", "otra"}

\* ---- the auth service's accounts (external)
Accounts == {"camilo@prueba.com", "diana@prueba.com"}
UidOf(email) == IF email = "camilo@prueba.com" THEN "uid-camilo" ELSE "uid-diana"
GoodPassword == "secreta"
ErrorCodes == {"auth/invalid-credential", "auth/wrong-password",
               "auth/user-not-found", "auth/too-many-requests",
               "auth/network-request-failed", Undefined}

\* ---- messages of the login form
MsgNotAllowed == "Usuario no permitido. Usa: camilo o diana."
MsgNoPassword == "Escribe la contrasena."
MsgWrongPassword == "Contrasena incorrecta."
MsgNoSuchUser == "Ese usuario no existe en Firebase Auth."
MsgTooMany == "Demasiados intentos. Espera un momento y prueba de nuevo."
MsgGeneric == "No se pudo iniciar sesion. Revisa Firebase Auth y el correo."

(***************************************************************************)
(* LoginPage: pure functions                                               *)
(***************************************************************************)
toLowerCase(c) ==
    CASE c = "C" -> "c" [] c = "D" -> "d" [] c = "I" -> "i" [] c = "A" -> "a"
      [] c = "N" -> "n" [] c = "P" -> "p" [] OTHER -> c

RECURSIVE trimStart(_)
trimStart(s) ==
    IF s # << >> /\ Head(s) = " " THEN trimStart(Tail(s)) ELSE s

RECURSIVE trimEnd(_)
trimEnd(s) ==
    IF s # << >> /\ s[Len(s)] = " " THEN trimEnd(SubSeq(s, 1, Len(s) - 1)) ELSE s

\* u.trim().toLowerCase()
normalizeUser(u) ==
    LET t == trimEnd(trimStart(u)) IN [i \in 1..Len(t) |-> toLowerCase(t[i])]

\* Keys every object literal inherits from Object.prototype and that are
\* already lower-case (the only ones a lower-cased key can hit).
ObjectPrototypeKeys == {U_constructor, U_proto}
InheritedMember == "[inherited Object.prototype member]"

\* USER_TO_EMAIL[u]: a property read on an object literal, so it finds the
\* two own entries and, failing that, what the prototype chain holds.
USER_TO_EMAIL(u) ==
    IF u = U_camilo THEN "camilo@prueba.com"
    ELSE IF u = U_diana THEN "diana@prueba.com"
    ELSE IF u \in ObjectPrototypeKeys THEN InheritedMember
    ELSE Undefined

\* From with the attached path ignored
From_Ignored(st) == "/watchlist"

\* A destination that is the login page itself
From_Login(st) == "/login"

\* loc?.state?.from || "/watchlist"
From(st) == IF st = NoState THEN "/watchlist" ELSE st

\* A form that takes any password
PasswordMissing_Never(p) == FALSE

\* !pass
PasswordMissing(p) == p = ""

\* One message for every error
LoginErrorMessage_Generic(code) == MsgGeneric

\* the message onLogin's catch block sets for an error code
LoginErrorMessage(code) ==
    IF code = "auth/invalid-credential" \/ code = "auth/wrong-password"
    THEN MsgWrongPassword
    ELSE IF code = "auth/user-not-found" THEN MsgNoSuchUser
    ELSE IF code = "auth/too-many-requests" THEN MsgTooMany
    ELSE MsgGeneric

(***************************************************************************)
(* Routing: what the route tree of App renders                             *)
(***************************************************************************)
\* RequireAuth without the wait for auth to resolve
RequireAuth_NoWait(p, ld, u) ==
    IF u = NoUser THEN "NavigateLogin"
    ELSE IF p = "/" THEN "NavigateWatchlist"
    ELSE p

\* RequireAuth
RequireAuth(p, ld, u) ==
    IF ld THEN "Cargando"
    ELSE IF u = NoUser THEN "NavigateLogin"
    ELSE IF p = "/" THEN "NavigateWatchlist"
    ELSE p

\* <Routes> of App
Render(p, ld, u) ==
    IF p = "/login" THEN "LoginPage"
    ELSE IF p = "/" \/ p \in ProtectedPages THEN RequireAuth(p, ld, u)
    ELSE "NavigateRoot"

\* navigate(to, {state}): the location changes and the tree renders again.
\* LoginPage state lives only while the page is mounted: it is at its
\* useState defaults when the page mounts and is dropped when it unmounts.
Goto(to, st) ==
    /\ pathname' = to
    /\ locState' = st
    /\ screen' = Render(to, authLoading', user')
    /\ IF (to = "/login") # (pathname = "/login")
       THEN /\ username' = U_empty
            /\ pass' = ""
            /\ loading' = FALSE
            /\ err' = ""
       ELSE UNCHANGED <<username, pass, loading, err>>

Rerender == screen' = Render(pathname, authLoading', user')

\* Under Spec the pages behind the gate are not entered into: their state
\* stays as constructed.
RouletteIdle == UNCHANGED rouletteVars
DetailsIdle == UNCHANGED detailsVars
PagesIdle == UNCHANGED <<mirrorVars, detailsVars, rouletteVars>>

\* A promise continuation (after await) runs before the browser handles the
\* next user event.
NoContinuationDue == signIn.st \notin {"ok", "rejected"} /\ ~logoutPending

\* LoginPage's redirect effect is due: effects of a render are flushed
\* before the next user event is handled.
LoginRedirectDue == screen = "LoginPage" /\ ~authLoading /\ user # NoUser

\* The auth service notifies the session stream as part of the sign-in or
\* sign-out call, before a later user event.
AuthStreamDue == ~authLoading /\ user # session

\* The user can act on what is on screen: nothing the event loop runs first
\* is outstanding.
UserCanAct == NoContinuationDue /\ ~LoginRedirectDue /\ ~AuthStreamDue

(***************************************************************************)
(* Browser and auth context                                                *)
(***************************************************************************)
\* The app is loaded at path p: all in-memory state starts over, the session
\* kept by the auth service does not.
Visit(p) ==
    /\ authLoading' = TRUE
    /\ user' = NoUser
    /\ UNCHANGED session
    /\ pathname' = p
    /\ locState' = NoState
    /\ screen' = Render(p, TRUE, NoUser)
    /\ username' = U_empty
    /\ pass' = ""
    /\ loading' = FALSE
    /\ err' = ""
    /\ signIn' = NoCall
    /\ UNCHANGED signInCalls
    /\ logoutPending' = FALSE
    /\ lastOp' = "Visit"
    /\ PagesIdle

\* AuthProvider: the first value of the session stream arrives.
AuthResolved ==
    /\ authLoading
    /\ authLoading' = FALSE
    /\ user' = session
    /\ UNCHANGED session
    /\ Rerender
    /\ UNCHANGED <<pathname, locState, loginVars, logoutPending>>
    /\ lastOp' = "AuthResolved"
    /\ PagesIdle

\* AuthProvider: a later value of the session stream arrives.
AuthStateChanged ==
    /\ ~authLoading
    /\ user # session
    /\ user' = session
    /\ UNCHANGED <<authLoading, session>>
    /\ Rerender
    /\ UNCHANGED <<pathname, locState, loginVars, logoutPending>>
    /\ lastOp' = "AuthStateChanged"
    /\ PagesIdle

(***************************************************************************)
(* Redirects of the route tree                                             *)
(***************************************************************************)
\* RequireAuth: <Navigate to="/login" replace state={{from: pathname}} />
RequireAuthRedirect ==
    /\ screen = "NavigateLogin"
    /\ UNCHANGED authVars
    /\ Goto("/login", pathname)
    /\ UNCHANGED <<signIn, signInCalls, logoutPending>>
    /\ lastOp' = "RequireAuthRedirect"
    /\ PagesIdle

\* index route: <Navigate to="/watchlist" replace />
IndexRedirect ==
    /\ screen = "NavigateWatchlist"
    /\ UNCHANGED authVars
    /\ Goto("/watchlist", NoState)
    /\ UNCHANGED <<signIn, signInCalls, logoutPending>>
    /\ lastOp' = "IndexRedirect"
    /\ PagesIdle

\* path="*": <Navigate to="/" replace />
CatchAllRedirect ==
    /\ screen = "NavigateRoot"
    /\ UNCHANGED authVars
    /\ Goto("/", NoState)
    /\ UNCHANGED <<signIn, signInCalls, logoutPending>>
    /\ lastOp' = "CatchAllRedirect"
    /\ PagesIdle

\* LoginPage effect: already signed in, go to the destination.
LoginRedirectEffect ==
    /\ LoginRedirectDue
    /\ UNCHANGED authVars
    /\ Goto(From(locState), NoState)
    /\ UNCHANGED <<signIn, signInCalls, logoutPending>>
    /\ lastOp' = "LoginRedirectEffect"
    /\ PagesIdle

(***************************************************************************)
(* HomeLayout                                                              *)
(***************************************************************************)
LinkClick(p) ==
    /\ screen \in ProtectedPages
    /\ UserCanAct
    /\ UNCHANGED authVars
    /\ Goto(p, NoState)
    /\ UNCHANGED <<signIn, signInCalls, logoutPending>>
    /\ lastOp' = "LinkClick"
    /\ PagesIdle

\* logout(), up to the await: signOut(auth)
logout ==
    /\ screen \in ProtectedPages
    /\ UserCanAct
    /\ session' = NoUser
    /\ logoutPending' = TRUE
    /\ UNCHANGED <<authLoading, user, routeVars, loginVars>>
    /\ lastOp' = "logout"
    /\ PagesIdle

\* logout(), after the await: nav("/login", {replace: true})
logoutNav ==
    /\ logoutPending
    /\ logoutPending' = FALSE
    /\ UNCHANGED authVars
    /\ Goto("/login", NoState)
    /\ UNCHANGED <<signIn, signInCalls>>
    /\ lastOp' = "logoutNav"
    /\ PagesIdle

(***************************************************************************)
(* LoginPage                                                               *)
(***************************************************************************)
\* The inputs are disabled while loading || authLoading.
setUsername(u) ==
    /\ screen = "LoginPage"
    /\ UserCanAct
    /\ ~(loading \/ authLoading)
    /\ username' = u
    /\ UNCHANGED <<authVars, routeVars, pass, loading, err, signIn,
                   signInCalls, logoutPending>>
    /\ lastOp' = "setUsername"
    /\ PagesIdle

setPass(p) ==
    /\ screen = "LoginPage"
    /\ UserCanAct
    /\ ~(loading \/ authLoading)
    /\ pass' = p
    /\ UNCHANGED <<authVars, routeVars, username, loading, err, signIn,
                   signInCalls, logoutPending>>
    /\ lastOp' = "setPass"
    /\ PagesIdle

\* A handler with no guard on a call in progress
InProgress_Never == FALSE

\* if (loading) return
InProgress == loading

\* onLogin, from the submit event to the await (or to the early return,
\* whose finally block clears loading).
onLogin ==
    /\ screen = "LoginPage"
    /\ UserCanAct
    /\ LET u == normalizeUser(username)
           email == USER_TO_EMAIL(u)
       IN IF InProgress
          THEN UNCHANGED loginVars
          ELSE IF email = Undefined
          THEN /\ err' = MsgNotAllowed
               /\ loading' = FALSE
               /\ UNCHANGED <<username, pass, signIn, signInCalls>>
          ELSE IF PasswordMissing(pass)
          THEN /\ err' = MsgNoPassword
               /\ loading' = FALSE
               /\ UNCHANGED <<username, pass, signIn, signInCalls>>
          ELSE /\ signInCalls < MaxSignInCalls
               /\ err' = ""
               /\ loading' = TRUE
               /\ signIn' = [st |-> "pending", email |-> email, pass |-> pass,
                             from |-> From(locState), code |-> Undefined]
               /\ signInCalls' = signInCalls + 1
               /\ UNCHANGED <<username, pass>>
    /\ UNCHANGED <<authVars, routeVars, logoutPending>>
    /\ lastOp' = "onLogin"
    /\ PagesIdle

\* The auth service accepts the credentials and opens the session.
SignInAccepted ==
    /\ signIn.st = "pending"
    /\ signIn.email \in Accounts
    /\ signIn.pass = GoodPassword
    /\ session' = UidOf(signIn.email)
    /\ signIn' = [signIn EXCEPT !.st = "ok"]
    /\ UNCHANGED <<authLoading, user, routeVars, username, pass, loading, err,
                   signInCalls, logoutPending>>
    /\ lastOp' = "SignInAccepted"
    /\ PagesIdle

\* onLogin after the await resolved: nav(from, {replace: true}), then finally.
onLoginResolved ==
    /\ signIn.st = "ok"
    /\ UNCHANGED authVars
    /\ Goto(signIn.from, NoState)
    /\ signIn' = NoCall
    /\ UNCHANGED <<signInCalls, logoutPending>>
    /\ lastOp' = "onLoginResolved"
    /\ PagesIdle

\* The auth service rejects the call with an error that carries code, or
\* no code.
SignInRejected(code) ==
    /\ signIn.st = "pending"
    /\ signIn' = [signIn EXCEPT !.st = "rejected", !.code = code]
    /\ UNCHANGED <<authVars, routeVars, username, pass, loading, err,
                   signInCalls, logoutPending>>
    /\ lastOp' = "SignInRejected"
    /\ PagesIdle

\* onLogin after the await threw: the catch and finally blocks.
onLoginRejected ==
    /\ signIn.st = "rejected"
    /\ err' = LoginErrorMessage(signIn.code)
    /\ loading' = FALSE
    /\ signIn' = NoCall
    /\ UNCHANGED <<authVars, routeVars, username, pass, signInCalls,
                   logoutPending>>
    /\ lastOp' = "onLoginRejected"
    /\ PagesIdle

(***************************************************************************)
(* Values handed to and received from the document database                *)
(***************************************************************************)
\* JavaScript values, tagged so that values of different types compare.
Str(s) == [str |-> s]
Num(n) == [num |-> n]
Arr(a) == [arr |-> a]
Null == [null |-> TRUE]
Undef == [undef |-> TRUE]
ServerTimestamp == [sentinel |-> "serverTimestamp"]

\* Most write calls a page may have in flight at once.
MaxInFlight == 1

ListPages == {"/watchlist", "/planes", "/metas"}
CollectionOf(p) ==
    CASE p = "/planes" -> "plans" [] p = "/watchlist" -> "watchlist"
      [] p = "/metas" -> "goals" [] OTHER -> "none"

\* ---- the onSnapshot listeners that are live, in the order they were opened
\* a listener of the collection can call back
Live(coll) == \E i \in DOMAIN sub : sub[i] = coll

\* an effect cleanup that leaves its listener open
Unsubscribed_Kept(ls) == ls

\* `return () => unsub()`: the cleanup of the effect closes the listener the
\* effect opened; an effect run that returned early has no cleanup, and
\* unsub() of a listener that ended with an error does nothing
Unsubscribed(ls) == IF ls = << >> THEN ls ELSE SubSeq(ls, 1, Len(ls) - 1)

\* a listener ends when it reports an error
Ended(ls, coll) == SelectSeq(ls, LAMBDA c : c # coll)

\* ---- identities of the two accounts (external)
E_camilo == <<"c", "a", "m", "@", "p", ".", "c", "o">>
E_diana == <<"d", "i", "@", "p", ".", "c", "o">>
N_Diana == <<"D", "i", "a", "n", "a">>
EmailOf(uid) == IF uid = "uid-camilo" THEN E_camilo ELSE E_diana
\* camilo has no display name set, diana has one
DisplayNameOf(uid) == IF uid = "uid-diana" THEN N_Diana ELSE << >>

RECURSIVE beforeAt(_)
beforeAt(s) ==
    IF s = << >> \/ Head(s) = "@" THEN << >>
    ELSE <<Head(s)>> \o beforeAt(Tail(s))

\* A name that is the whole address
nameFromEmail_Whole(email) == IF email = << >> THEN Null ELSE Str(email)

\* email ? email.split("@")[0] : null
nameFromEmail(email) == IF email = << >> THEN Null ELSE Str(beforeAt(email))

\* user.displayName || nameFromEmail(user.email)
WhoName(uid) ==
    IF DisplayNameOf(uid) # << >> THEN Str(DisplayNameOf(uid))
    ELSE nameFromEmail(EmailOf(uid))

\* the four fields every update stamps
UpdatedBy(uid) ==
    [updatedByUid |-> Str(uid),
     updatedByEmail |-> Str(EmailOf(uid)),
     updatedByName |-> WhoName(uid),
     updatedAt |-> ServerTimestamp]

CreatedBy(uid) ==
    [createdByUid |-> Str(uid),
     createdByEmail |-> Str(EmailOf(uid)),
     createdByName |-> WhoName(uid),
     createdAt |-> ServerTimestamp]

\* {...a, ...b}
Spread(a, b) ==
    [k \in DOMAIN a \cup DOMAIN b |-> IF k \in DOMAIN b THEN b[k] ELSE a[k]]

\* s.trim()
trim(s) == trimEnd(trimStart(s))

\* A write call: what is sent, and what its continuation will need.
\* confirmed records whether window.confirm was answered yes for it.
WriteCall(op, coll, id, data, by, confirmed, ctx) ==
    [op |-> op, coll |-> coll, id |-> id, data |-> data, by |-> by,
     confirmed |-> confirmed, ctx |-> ctx]

NoData == [none |-> Null]
NoCtx == [none |-> Null]

CanCall == Len(writes) < MaxInFlight

RemoveAt(s, i) == SubSeq(s, 1, i - 1) \o SubSeq(s, i + 1, Len(s))

(***************************************************************************)
(* PlansPage                                                               *)
(***************************************************************************)
PlanStatuses == {"idea", "planned", "done"}

PlanDoc(id, st, sort) ==
    [id |-> id, data |-> [title |-> id, status |-> st, sort |-> sort]]

\* Snapshots of the plans query, ordered by sort ascending.
PlanSnapshots ==
    { << >>,
      <<PlanDoc("p1", "idea", 10)>>,
      <<PlanDoc("p1", "planned", 10), PlanDoc("p2", "done", 20)>>,
      <<PlanDoc("p1", "done", 10), PlanDoc("p2", "planned", 20),
        PlanDoc("p3", "idea", 30)>> }

\* PlanRows appending to the rows already held
PlanRows_Appending(snap) ==
    plans \o [i \in 1..Len(snap) |->
                [id |-> snap[i].id, title |-> snap[i].data.title,
                 status |-> snap[i].data.status, sort |-> snap[i].data.sort]]

\* snap.docs.map((d) => ({id: d.id, ...data}))
PlanRows(snap) ==
    [i \in 1..Len(snap) |->
        [id |-> snap[i].id, title |-> snap[i].data.title,
         status |-> snap[i].data.status, sort |-> snap[i].data.sort]]

\* items of a list with the given status, in list order
RECURSIVE FilterStatus(_, _)
FilterStatus(list, st) ==
    IF list = << >> THEN << >>
    ELSE (IF Head(list).status = st THEN <<Head(list)>> ELSE << >>)
         \o FilterStatus(Tail(list), st)

\* PlansGrouped with the done bucket fed from the planned rows
PlansGrouped_WrongKey(list) ==
    [st \in {"idea", "planned", "done"} |->
        FilterStatus(list, IF st = "done" THEN "planned" ELSE st)]

\* grouped: for (const p of plans) map[p.status].push(p)
PlansGrouped(list) == [st \in PlanStatuses |-> FilterStatus(list, st)]
grouped == PlansGrouped(plans)

T_empty == << >>
T_blank == <<" ">>
T_Cine == <<"C", "i", "n", "e">>
T_CinePadded == <<" ", "C", "i", "n", "e", " ">>
Titles == {T_empty, T_blank, T_CinePadded}
Descriptions == {T_empty, <<" ", "x", " ">>}
L_a == <<"a">>
\* linksText, as the lines that split("\n") yields
LinksTexts == { <<T_empty>>, <<<<" ", "a">>, T_blank, <<"b", " ">>>> }

PlanFormDefault ==
    [title |-> T_empty, description |-> T_empty, linksText |-> <<T_empty>>]

\* linksText.split("\n").map((x) => x.trim()).filter(Boolean)
RECURSIVE Links(_)
Links(ls) ==
    IF ls = << >> THEN << >>
    ELSE (IF trim(Head(ls)) # << >> THEN <<trim(Head(ls))>> ELSE << >>)
         \o Links(Tail(ls))

\* Patches handed to patchPlan: those of its call sites, and partial records
\* carrying undefined.
Patches ==
    { [status |-> Str("planned")],
      [links |-> Arr(<<L_a>>)],
      [title |-> Undef],
      [title |-> Str(T_Cine), description |-> Undef, status |-> Str("done")],
      [description |-> Null, links |-> Undef] }

\* Cleaned without the filter
Cleaned_Unfiltered(patch) == patch

\* cleaned: the entries of patch whose value is not undefined
Cleaned(patch) ==
    [k \in {j \in DOMAIN patch : patch[j] # Undef} |-> patch[k]]

PlanIds(list) == {list[i].id : i \in 1..Len(list)}

setPlanForm(f, v) ==
    /\ screen = "/planes"
    /\ planForm' = [planForm EXCEPT ![f] = v]
    /\ UNCHANGED <<plans, plansLoading, watchVars, goalsVars, sub, delivered, watchlistDocs, writes>>
    /\ lastOp' = "setPlanForm"

\* onSnapshot callback of PlansPage
PlansSnapshot(snap) ==
    /\ Live("plans")
    /\ plans' = PlanRows(snap)
    /\ plansLoading' = FALSE
    /\ delivered' = snap
    /\ UNCHANGED watchlistDocs
    /\ UNCHANGED <<planForm, watchVars, goalsVars, sub, writes>>
    /\ lastOp' = "PlansSnapshot"

\* onSnapshot error callback of PlansPage; the listener ends with the error
PlansSnapshotError ==
    /\ Live("plans")
    /\ plansLoading' = FALSE
    /\ sub' = Ended(sub, "plans")
    /\ UNCHANGED <<delivered, watchlistDocs>>
    /\ UNCHANGED <<plans, planForm, watchVars, goalsVars, writes>>
    /\ lastOp' = "PlansSnapshotError"

\* createPlan, up to the await
createPlan ==
    /\ screen = "/planes"
    /\ LET t == trim(planForm.title) IN
       IF t = << >> \/ user = NoUser
       THEN UNCHANGED writes
       ELSE /\ CanCall
            /\ writes' = Append(writes,
                 WriteCall("addDoc", "plans", "new",
                    Spread(Spread(
                      [title |-> Str(t),
                       description |-> Str(trim(planForm.description)),
                       links |-> Arr(Links(planForm.linksText)),
                       status |-> Str("idea"),
                       sort |-> [now |-> TRUE]],
                      CreatedBy(user)), UpdatedBy(user)),
                    "createPlan", FALSE, NoCtx))
    /\ UNCHANGED <<plansVars, watchVars, goalsVars, sub, delivered, watchlistDocs>>
    /\ lastOp' = "createPlan"

\* patchPlan, up to the await
patchPlan(planId, patch) ==
    /\ screen = "/planes"
    /\ planId \in PlanIds(plans)
    /\ IF user = NoUser
       THEN UNCHANGED writes
       ELSE /\ CanCall
            /\ writes' = Append(writes,
                 WriteCall("updateDoc", "plans", planId,
                    Spread(Cleaned(patch), UpdatedBy(user)),
                    "patchPlan", FALSE, [patch |-> patch]))
    /\ UNCHANGED <<plansVars, watchVars, goalsVars, sub, delivered, watchlistDocs>>
    /\ lastOp' = "patchPlan"

\* removePlan, up to the await: the Borrar button calls it directly
removePlan(planId) ==
    /\ screen = "/planes"
    /\ planId \in PlanIds(plans)
    /\ CanCall
    /\ writes' = Append(writes,
         WriteCall("deleteDoc", "plans", planId, NoData, "removePlan", FALSE,
                   NoCtx))
    /\ UNCHANGED <<plansVars, watchVars, goalsVars, sub, delivered, watchlistDocs>>
    /\ lastOp' = "removePlan"

(***************************************************************************)
(* WatchlistPage                                                           *)
(***************************************************************************)
WatchStatuses == {"pending", "watching", "done"}
NoSelection == [none |-> Null]

WatchDoc(id, tmdbId, mediaType, st, season, episode, createdAt) ==
    [id |-> id,
     data |-> [tmdbId |-> tmdbId, mediaType |-> mediaType, status |-> st,
               season |-> season, episode |-> episode, createdAt |-> createdAt]]

\* createdAt is {seconds} once the server has stamped it, null before
Stamp(sec) == [seconds |-> sec]

\* Snapshots of the watchlist query (no order asked for: document id order).
WatchSnapshots ==
    { << >>,
      <<WatchDoc("w1", 603, "movie", "pending", Null, Null, Stamp(5))>>,
      <<WatchDoc("w1", 603, "movie", "watching", Null, Null, Stamp(5)),
        WatchDoc("w2", 1399, "tv", "watching", Num(1), Num(2), Stamp(9))>>,
      <<WatchDoc("w1", 603, "movie", "done", Null, Null, Null),
        WatchDoc("w2", 1399, "tv", "pending", Num(1), Num(1), Stamp(9)),
        WatchDoc("w3", 550, "movie", "pending", Null, Null, Stamp(9))>> }

\* a?.createdAt?.seconds ?? 0
SecondsOf(it) == IF it.createdAt = Null THEN 0 ELSE it.createdAt.seconds

\* Array.prototype.sort with (a, b) => tb - ta: stable, newest first
RECURSIVE InsertByCreated(_, _)
InsertByCreated(sorted, it) ==
    IF sorted = << >> THEN <<it>>
    ELSE IF SecondsOf(Head(sorted)) >= SecondsOf(it)
         THEN <<Head(sorted)>> \o InsertByCreated(Tail(sorted), it)
         ELSE <<it>> \o sorted

RECURSIVE SortByCreated(_)
SortByCreated(list) ==
    IF list = << >> THEN << >>
    ELSE InsertByCreated(SortByCreated(SubSeq(list, 1, Len(list) - 1)),
                         list[Len(list)])

\* snap.docs.map((d) => ({id: d.id, ...d.data()})), then data.sort(...)
WatchRows(snap) ==
    SortByCreated(
      [i \in 1..Len(snap) |->
        [id |-> snap[i].id, tmdbId |-> snap[i].data.tmdbId,
         mediaType |-> snap[i].data.mediaType, status |-> snap[i].data.status,
         season |-> snap[i].data.season, episode |-> snap[i].data.episode,
         createdAt |-> snap[i].data.createdAt]])

pending == FilterStatus(items, "pending")
watching == FilterStatus(items, "watching")
done == FilterStatus(items, "done")

\* existingIds: the keys `${mediaType}:${tmdbId}` of the local items
existingIds == {<<items[i].mediaType, items[i].tmdbId>> : i \in 1..Len(items)}

ItemIds(list) == {list[i].id : i \in 1..Len(list)}

\* Search results the add flow is given.
SearchResults ==
    { [id |-> 603, media_type |-> "movie", title |-> "Matrix",
       name |-> Undefined, poster_path |-> Str("/m.jpg")],
      [id |-> 1399, media_type |-> "tv", title |-> Undefined,
       name |-> "Tronos", poster_path |-> Null],
      [id |-> 7, media_type |-> "tv", title |-> Undefined,
       name |-> Undefined, poster_path |-> Undef] }

\* item.title ?? item.name ?? "Sin titulo"
titleOf(r) ==
    IF r.title # Undefined THEN r.title
    ELSE IF r.name # Undefined THEN r.name
    ELSE "Sin titulo"

\* x ?? null
OrNull(v) == IF v = Undef THEN Null ELSE v

\* onSnapshot callback of WatchlistPage
WatchSnapshot(snap) ==
    /\ Live("watchlist")
    /\ items' = WatchRows(snap)
    /\ delivered' = snap
    /\ UNCHANGED watchlistDocs
    /\ UNCHANGED <<plansVars, selected, goalsVars, sub, writes>>
    /\ lastOp' = "WatchSnapshot"

\* onSnapshot error callback of WatchlistPage: console.error only
WatchSnapshotError ==
    /\ Live("watchlist")
    /\ sub' = Ended(sub, "watchlist")
    /\ UNCHANGED <<delivered, watchlistDocs>>
    /\ UNCHANGED <<plansVars, watchVars, goalsVars, writes>>
    /\ lastOp' = "WatchSnapshotError"

\* a row or a search result is clicked
setSelected(sel) ==
    /\ screen = "/watchlist"
    /\ selected' = sel
    /\ UNCHANGED <<plansVars, items, goalsVars, sub, delivered, watchlistDocs, writes>>
    /\ lastOp' = "setSelected"

\* A counter started for every kind
StartAt_Always(mediaType) == Num(1)

\* mediaType === "tv" ? 1 : null
StartAt(mediaType) == IF mediaType = "tv" THEN Num(1) ELSE Null

\* addToPending, up to the await; the add button calls it only for results
\* whose key is not in existingIds
addToPending(r) ==
    /\ screen = "/watchlist"
    /\ <<r.media_type, r.id>> \notin existingIds
    /\ IF user = NoUser \/ r.media_type \notin {"movie", "tv"}
       THEN UNCHANGED writes
       ELSE /\ CanCall
            /\ writes' = Append(writes,
                 WriteCall("addDoc", "watchlist", "new",
                    Spread(Spread(
                      [tmdbId |-> Num(r.id),
                       mediaType |-> Str(r.media_type),
                       title |-> Str(titleOf(r)),
                       posterPath |-> OrNull(r.poster_path),
                       status |-> Str("pending"),
                       season |-> StartAt(r.media_type),
                       episode |-> StartAt(r.media_type)],
                      CreatedBy(user)), UpdatedBy(user)),
                    "addToPending", FALSE,
                    [sel |-> [mediaType |-> r.media_type, tmdbId |-> r.id]]))
    /\ UNCHANGED <<plansVars, watchVars, goalsVars, sub, delivered, watchlistDocs>>
    /\ lastOp' = "addToPending"

\* setStatus, up to the await
setStatus(id, status) ==
    /\ screen = "/watchlist"
    /\ id \in ItemIds(items)
    /\ IF user = NoUser
       THEN UNCHANGED writes
       ELSE /\ CanCall
            /\ writes' = Append(writes,
                 WriteCall("updateDoc", "watchlist", id,
                    Spread([status |-> Str(status)], UpdatedBy(user)),
                    "setStatus", FALSE, NoCtx))
    /\ UNCHANGED <<plansVars, watchVars, goalsVars, sub, delivered, watchlistDocs>>
    /\ lastOp' = "setStatus"

\* updateProgress, up to the await
updateProgress(id, season, episode) ==
    /\ screen = "/watchlist"
    /\ id \in ItemIds(items)
    /\ IF user = NoUser
       THEN UNCHANGED writes
       ELSE /\ CanCall
            /\ writes' = Append(writes,
                 WriteCall("updateDoc", "watchlist", id,
                    Spread([season |-> Num(season), episode |-> Num(episode)],
                           UpdatedBy(user)),
                    "updateProgress", FALSE, NoCtx))
    /\ UNCHANGED <<plansVars, watchVars, goalsVars, sub, delivered, watchlistDocs>>
    /\ lastOp' = "updateProgress"

\* removeItem: window.confirm answers ok; the call is made only on yes
removeItem(id, ok) ==
    /\ screen = "/watchlist"
    /\ id \in ItemIds(items)
    /\ IF ~ok
       THEN UNCHANGED writes
       ELSE /\ CanCall
            /\ writes' = Append(writes,
                 WriteCall("deleteDoc", "watchlist", id, NoData, "removeItem",
                           ok, NoCtx))
    /\ UNCHANGED <<plansVars, watchVars, goalsVars, sub, delivered, watchlistDocs>>
    /\ lastOp' = "removeItem"

(***************************************************************************)
(* WatchlistPage: the details panel                                        *)
(***************************************************************************)
NoDetails == [none |-> Null]
MsgDetailsFallback == "Error cargando detalles"
MsgTmdbError == "TMDB error 404: Not Found"

\* getDetails calls in flight at once
MaxFetches == 2

DetailsConstructed ==
    /\ details = NoDetails
    /\ detailsLoading = FALSE
    /\ detailsError = "null"
    /\ detailFetches = << >>

\* the dependency list of the details effect
DetailsDeps(sel) ==
    IF sel = NoSelection THEN <<Undefined, Undefined>>
    ELSE <<sel.mediaType, sel.tmdbId>>

\* the record TMDB answers getDetails(mediaType, id) with
TmdbDetails(sel) == [id |-> sel.tmdbId, media_type |-> sel.mediaType]

\* A cleanup that leaves the flag alone
Cancelled_Never(fs) == fs

\* The cleanup of the effect run in force: cancelled = true. The cleanups
\* of the earlier runs ran when those were replaced.
Cancelled(fs) == [i \in 1..Len(fs) |-> [fs[i] EXCEPT !.cancelled = TRUE]]

\* History: the fetches in flight belong to a selection no longer in force.
Replaced(fs) == [i \in 1..Len(fs) |-> [fs[i] EXCEPT !.replaced = TRUE]]

\* The details effect, run with the render that committed selected': it
\* re-runs when a dependency changed, its cleanup first.
DetailsEffect ==
    IF DetailsDeps(selected') = DetailsDeps(selected)
    THEN UNCHANGED detailsVars
    ELSE IF selected' = NoSelection
    THEN /\ details' = NoDetails
         /\ detailFetches' = Cancelled(Replaced(detailFetches))
         /\ UNCHANGED <<detailsLoading, detailsError>>
    ELSE /\ Len(detailFetches) < MaxFetches
         /\ detailsLoading' = TRUE
         /\ detailsError' = "null"
         /\ detailFetches' =
              Append(Cancelled(Replaced(detailFetches)),
                     [sel |-> selected', cancelled |-> FALSE,
                      replaced |-> FALSE])
         /\ UNCHANGED details

\* The page unmounts (the cleanup runs) and the page shown next starts from
\* the useState defaults; a fresh WatchlistPage runs the effect with no
\* selection.
DetailsUnmount ==
    /\ details' = NoDetails
    /\ detailsLoading' = FALSE
    /\ detailsError' = "null"
    /\ detailFetches' = Cancelled(Replaced(detailFetches))

\* getDetails call i fulfils: the code after the await, then finally
DetailsResolved(i) ==
    /\ i \in 1..Len(detailFetches)
    /\ detailFetches' = RemoveAt(detailFetches, i)
    /\ IF detailFetches[i].cancelled
       THEN UNCHANGED <<details, detailsLoading, detailsError>>
       ELSE /\ details' = TmdbDetails(detailFetches[i].sel)
            /\ detailsLoading' = FALSE
            /\ UNCHANGED detailsError
    /\ UNCHANGED <<authVars, routeVars, loginVars, logoutPending, mirrorVars,
                   rouletteVars>>
    /\ lastOp' = "DetailsResolved"

\* getDetails call i rejects with an error whose message is message, or
\* Undefined: the catch block, then finally
DetailsRejected(i, message) ==
    /\ i \in 1..Len(detailFetches)
    /\ detailFetches' = RemoveAt(detailFetches, i)
    /\ IF detailFetches[i].cancelled
       THEN UNCHANGED <<details, detailsLoading, detailsError>>
       ELSE /\ detailsError' = IF message = Undefined
                                THEN MsgDetailsFallback ELSE message
            /\ detailsLoading' = FALSE
            /\ UNCHANGED details
    /\ UNCHANGED <<authVars, routeVars, loginVars, logoutPending, mirrorVars,
                   rouletteVars>>
    /\ lastOp' = "DetailsRejected"

(***************************************************************************)
(* GoalsPage                                                               *)
(***************************************************************************)
GoalStatuses == {"active", "paused", "done"}
NoEditing == "null"

Max(a, b) == IF a >= b THEN a ELSE b

\* Values Number() turns into a finite number carry it: a number, or a
\* string holding a numeral.
NumStr(n) == [numstr |-> n]
NaN == [nan |-> TRUE]

\* safeNumber(v, fallback): Number(v) when finite, else fallback
safeNumber(v, fallback) ==
    IF "num" \in DOMAIN v THEN v.num
    ELSE IF "numstr" \in DOMAIN v THEN v.numstr
    ELSE IF v = Null THEN 0
    ELSE fallback

\* a stored value is truthy when it is an object, an array, a number other
\* than 0 or a string holding a numeral (other strings are not stored at the
\* fields it is asked about)
Truthy(v) ==
    \/ "obj" \in DOMAIN v
    \/ "arr" \in DOMAIN v
    \/ "num" \in DOMAIN v /\ v.num # 0
    \/ "numstr" \in DOMAIN v
Obj(r) == [obj |-> r]

\* o.f of a stored value o: undefined unless o is an object holding f
Field(o, f) ==
    IF "obj" \in DOMAIN o /\ f \in DOMAIN o.obj THEN o.obj[f] ELSE Undef

\* Array.isArray(v) ? v : []
ItemsOf(v) == IF "arr" \in DOMAIN v THEN v.arr ELSE << >>

MoneyOf(target, current) ==
    [currency |-> "COP",
     targetAmount |-> Max(0, safeNumber(target, 0)),
     currentAmount |-> Max(0, safeNumber(current, 0))]

\* A normalisation without the safe default
SafeDefault_Off(p) == p

\* "default seguro": a progress with neither sub-record becomes an empty
\* checklist
SafeDefault(p) ==
    IF p.money = Undef /\ p.checklist = Undef
    THEN [money |-> Undef, checklist |-> [items |-> << >>]]
    ELSE p

\* The snapshot callback's normalisation of data.progress.
NormalizeProgress(progress) ==
    LET raw == IF progress \in {Undef, Null} THEN Obj([empty |-> Undef])
               ELSE progress
        legacyMoney == Field(raw, "mode") = Str("money")
        legacyChecklist == Field(raw, "mode") = Str("checklist")
        money ==
            IF legacyMoney
            THEN MoneyOf(Field(raw, "targetAmount"), Field(raw, "currentAmount"))
            ELSE IF ~legacyChecklist /\ Truthy(Field(raw, "money"))
            THEN MoneyOf(Field(Field(raw, "money"), "targetAmount"),
                         Field(Field(raw, "money"), "currentAmount"))
            ELSE Undef
        checklist ==
            IF legacyMoney THEN Undef
            ELSE IF legacyChecklist
            THEN [items |-> ItemsOf(Field(raw, "items"))]
            ELSE IF Truthy(Field(raw, "checklist"))
            THEN [items |-> ItemsOf(Field(Field(raw, "checklist"), "items"))]
            ELSE Undef
    IN SafeDefault([money |-> money, checklist |-> checklist])

ChecklistItem(id, text, isDone) == [id |-> id, text |-> text, done |-> isDone]
Checklist1 == <<ChecklistItem("s1", "ahorrar", TRUE), ChecklistItem("s2", "reservar", FALSE)>>

GoalDoc(id, title, st, progress, order) ==
    [id |-> id,
     data |-> [title |-> title, description |-> Undef, status |-> st,
               priority |-> Undef, targetDate |-> Undef,
               progress |-> progress, order |-> order]]

T_Viaje == <<"V", "i", "a", "j", "e">>
T_Casa == <<"C", "a", "s", "a">>

G_legacyMoney ==
    GoalDoc("g1", Str(T_Viaje), Str("active"),
            Obj([mode |-> Str("money"), targetAmount |-> Num(5000),
                 currentAmount |-> Num(1000)]), Num(40))
G_legacyChecklist ==
    GoalDoc("g2", Str(T_Casa), Str("paused"),
            Obj([mode |-> Str("checklist"), items |-> Arr(Checklist1)]), Num(30))
G_dual ==
    GoalDoc("g3", Str(T_Casa), Str("done"),
            Obj([money |-> Obj([targetAmount |-> NumStr(200),
                                currentAmount |-> Num(-5)]),
                 checklist |-> Obj([items |-> Arr(Checklist1)])]), Num(20))
G_bare ==
    GoalDoc("g4", Undef, Undef, Undef, Undef)
\* Stored shapes of data.progress: missing, null, empty, legacy single-mode,
\* dual, unknown mode, and values that are not records.
ProgressShapes ==
    { Undef, Null, Obj(<< >>), Num(5),
      Obj([mode |-> Str("money"), targetAmount |-> Num(5000),
           currentAmount |-> Num(1000)]),
      Obj([mode |-> Str("money"), targetAmount |-> Num(5000),
           currentAmount |-> Num(-1000)]),
      Obj([mode |-> Str("money")]),
      Obj([mode |-> Str("checklist"), items |-> Arr(Checklist1)]),
      Obj([mode |-> Str("checklist"),
           items |-> Obj([s1 |-> Str("ahorrar")])]),
      Obj([mode |-> Str("percent"), value |-> Num(50)]),
      Obj([mode |-> Str("percent"),
           money |-> Obj([targetAmount |-> Num(5000),
                          currentAmount |-> Num(1000)])]),
      Obj([money |-> Obj([targetAmount |-> NumStr(5000),
                          currentAmount |-> Num(-5)]),
           checklist |-> Obj([items |-> Arr(Checklist1)])]),
      Obj([money |-> Obj([targetAmount |-> Num(5000), currentAmount |-> NaN])]),
      Obj([money |-> Null, checklist |-> Num(0)]),
      Obj([money |-> Num(5)]) }

\* Snapshots of the goals query, ordered by order descending.
GoalSnapshots ==
    { << >>,
      <<G_legacyMoney, G_legacyChecklist>>,
      <<G_dual, G_bare>> }

\* One row of the snapshot callback's docs.map.
GoalRow(d) ==
    [id |-> d.id,
     title |-> IF d.data.title \in {Undef, Null} THEN << >> ELSE d.data.title.str,
     description |-> IF "str" \in DOMAIN d.data.description
                     THEN d.data.description.str ELSE << >>,
     status |-> IF d.data.status \in {Undef, Null} THEN "active"
                ELSE d.data.status.str,
     priority |-> IF d.data.priority \in {Undef, Null} THEN Undefined
                  ELSE d.data.priority.str,
     targetDate |-> IF "str" \in DOMAIN d.data.targetDate
                    THEN d.data.targetDate.str ELSE "",
     progress |-> NormalizeProgress(d.data.progress),
     order |-> IF "num" \in DOMAIN d.data.order THEN d.data.order.num ELSE 0]

GoalRows(snap) == [i \in 1..Len(snap) |-> GoalRow(snap[i])]

\* grouped of GoalsPage: three filters over goals
GoalsGrouped(list) == [st \in GoalStatuses |-> FilterStatus(list, st)]

GoalFormDefault ==
    [editingId |-> NoEditing, title |-> << >>, description |-> << >>,
     status |-> "active", priority |-> "none", targetDate |-> "",
     useChecklist |-> TRUE, useMoney |-> FALSE,
     targetAmount |-> 0, currentAmount |-> 0, checkItems |-> << >>]

\* loadToForm(g)
LoadedForm(g) ==
    [editingId |-> g.id, title |-> g.title, description |-> g.description,
     status |-> g.status,
     priority |-> IF g.priority = Undefined THEN "none" ELSE g.priority,
     targetDate |-> g.targetDate,
     useChecklist |-> g.progress.checklist # Undef,
     useMoney |-> g.progress.money # Undef,
     targetAmount |-> IF g.progress.money # Undef
                      THEN Max(0, g.progress.money.targetAmount) ELSE 0,
     currentAmount |-> IF g.progress.money # Undef
                       THEN Max(0, g.progress.money.currentAmount) ELSE 0,
     checkItems |-> IF g.progress.checklist # Undef
                    THEN g.progress.checklist.items ELSE << >>]

\* buildProgress(): the progress the form stands for
buildProgress(f) ==
    LET forceChecklist == ~f.useChecklist /\ ~f.useMoney IN
    [money |-> IF f.useMoney
               THEN [currency |-> "COP",
                     targetAmount |-> Max(0, f.targetAmount),
                     currentAmount |-> Max(0, f.currentAmount)]
               ELSE Undef,
     checklist |-> IF f.useChecklist \/ forceChecklist
                   THEN [items |-> f.checkItems] ELSE Undef]

\* the fields createGoal and saveGoal both send
GoalFields(f) ==
    [title |-> Str(trim(f.title)),
     description |-> Str(trim(f.description)),
     status |-> Str(f.status),
     priority |-> IF f.priority = "none" THEN Null ELSE Str(f.priority),
     targetDate |-> IF f.targetDate = "" THEN Null ELSE Str(f.targetDate),
     progress |-> Obj(buildProgress(f))]

GoalById(id) == CHOOSE g \in {goals[i] : i \in 1..Len(goals)} : g.id = id

\* onSnapshot callback of GoalsPage
GoalsSnapshot(snap) ==
    /\ Live("goals")
    /\ goals' = GoalRows(snap)
    /\ goalsLoading' = FALSE
    /\ delivered' = snap
    /\ UNCHANGED watchlistDocs
    /\ UNCHANGED <<plansVars, watchVars, goalForm, sub, writes>>
    /\ lastOp' = "GoalsSnapshot"

\* onSnapshot error callback of GoalsPage
GoalsSnapshotError ==
    /\ Live("goals")
    /\ goalsLoading' = FALSE
    /\ sub' = Ended(sub, "goals")
    /\ UNCHANGED <<delivered, watchlistDocs>>
    /\ UNCHANGED <<plansVars, watchVars, goals, goalForm, writes>>
    /\ lastOp' = "GoalsSnapshotError"

loadToForm(id) ==
    /\ screen = "/metas"
    /\ id \in ItemIds(goals)
    /\ goalForm' = LoadedForm(GoalById(id))
    /\ UNCHANGED <<plansVars, watchVars, goals, goalsLoading, sub, delivered, watchlistDocs, writes>>
    /\ lastOp' = "loadToForm"

resetForm ==
    /\ screen = "/metas"
    /\ goalForm' = GoalFormDefault
    /\ UNCHANGED <<plansVars, watchVars, goals, goalsLoading, sub, delivered, watchlistDocs, writes>>
    /\ lastOp' = "resetForm"

setGoalTitle(t) ==
    /\ screen = "/metas"
    /\ goalForm' = [goalForm EXCEPT !.title = t]
    /\ UNCHANGED <<plansVars, watchVars, goals, goalsLoading, sub, delivered, watchlistDocs, writes>>
    /\ lastOp' = "setGoalTitle"

\* the checklist and money switches of the form
setUseChecklist(v) ==
    /\ screen = "/metas"
    /\ goalForm' = [goalForm EXCEPT !.useChecklist = v]
    /\ UNCHANGED <<plansVars, watchVars, goals, goalsLoading, sub, delivered, watchlistDocs, writes>>
    /\ lastOp' = "setUseChecklist"

setUseMoney(v) ==
    /\ screen = "/metas"
    /\ goalForm' = [goalForm EXCEPT !.useMoney = v]
    /\ UNCHANGED <<plansVars, watchVars, goals, goalsLoading, sub, delivered, watchlistDocs, writes>>
    /\ lastOp' = "setUseMoney"

\* createGoal, up to the await; its button is rendered while no goal is
\* being edited
createGoal ==
    /\ screen = "/metas"
    /\ goalForm.editingId = NoEditing
    /\ IF trim(goalForm.title) = << >> \/ user = NoUser
       THEN UNCHANGED writes
       ELSE /\ CanCall
            /\ writes' = Append(writes,
                 WriteCall("addDoc", "goals", "new",
                    Spread(Spread(Spread(GoalFields(goalForm),
                                         [order |-> [now |-> TRUE]]),
                                  CreatedBy(user)), UpdatedBy(user)),
                    "createGoal", FALSE, NoCtx))
    /\ UNCHANGED <<plansVars, watchVars, goals, goalsLoading, goalForm, sub, delivered, watchlistDocs>>
    /\ lastOp' = "createGoal"

\* saveGoal, up to the await; its button is rendered while a goal is being
\* edited
saveGoal ==
    /\ screen = "/metas"
    /\ goalForm.editingId # NoEditing
    /\ IF goalForm.editingId = NoEditing \/ trim(goalForm.title) = << >>
          \/ user = NoUser
       THEN UNCHANGED writes
       ELSE /\ CanCall
            /\ writes' = Append(writes,
                 WriteCall("updateDoc", "goals", goalForm.editingId,
                    Spread(GoalFields(goalForm), UpdatedBy(user)),
                    "saveGoal", FALSE, NoCtx))
    /\ UNCHANGED <<plansVars, watchVars, goals, goalsLoading, goalForm, sub, delivered, watchlistDocs>>
    /\ lastOp' = "saveGoal"

\* toggleDone(g), up to the await
toggleDone(id) ==
    /\ screen = "/metas"
    /\ id \in ItemIds(goals)
    /\ IF user = NoUser
       THEN UNCHANGED writes
       ELSE /\ CanCall
            /\ writes' = Append(writes,
                 WriteCall("updateDoc", "goals", id,
                    Spread([status |-> Str(IF GoalById(id).status = "done"
                                           THEN "active" ELSE "done")],
                           UpdatedBy(user)),
                    "toggleDone", FALSE, NoCtx))
    /\ UNCHANGED <<plansVars, watchVars, goals, goalsLoading, goalForm, sub, delivered, watchlistDocs>>
    /\ lastOp' = "toggleDone"

\* togglePaused(g), up to the await
togglePaused(id) ==
    /\ screen = "/metas"
    /\ id \in ItemIds(goals)
    /\ IF user = NoUser
       THEN UNCHANGED writes
       ELSE /\ CanCall
            /\ writes' = Append(writes,
                 WriteCall("updateDoc", "goals", id,
                    Spread([status |-> Str(IF GoalById(id).status = "paused"
                                           THEN "active" ELSE "paused")],
                           UpdatedBy(user)),
                    "togglePaused", FALSE, NoCtx))
    /\ UNCHANGED <<plansVars, watchVars, goals, goalsLoading, goalForm, sub, delivered, watchlistDocs>>
    /\ lastOp' = "togglePaused"

\* removeGoal(id), up to the await: the Eliminar button calls it directly.
\* The continuation compares id with the editingId of the render it was
\* called from, so the outcome of the comparison is fixed at the call.
removeGoal(id) ==
    /\ screen = "/metas"
    /\ id \in ItemIds(goals)
    /\ CanCall
    /\ writes' = Append(writes,
         WriteCall("deleteDoc", "goals", id, NoData, "removeGoal", FALSE,
                   [editing |-> goalForm.editingId = id]))
    /\ UNCHANGED <<plansVars, watchVars, goals, goalsLoading, goalForm, sub, delivered, watchlistDocs>>
    /\ lastOp' = "removeGoal"

(***************************************************************************)
(* RoulettePage                                                            *)
(***************************************************************************)
NoCandidate == [kind |-> "none"]
MsgEmptyPool == "No hay nada para elegir con la configuracion actual."

\* numbers of spin()
MaxSteps == 36
MinSteps == 18
StepsPad == 12
BaseDelay == 45
EaseDelay == 240
EndDelay == 80

\* resolution of the values Math.random is taken to return: k / RandRes
RandRes == 3
\* draws followed within one mount of the page
MaxDraws == 2

Min(a, b) == IF a <= b THEN a ELSE b

\* Snapshots the two subscriptions of the page are given.
RoulettePlanSnapshots ==
    { << >>,
      <<PlanDoc("p1", "idea", 10), PlanDoc("p2", "done", 20)>> }

RouletteWatchSnapshots ==
    { << >>,
      <<[id |-> "w2",
         data |-> Spread(WatchDoc("w2", 1399, "tv", "watching", Num(1), Num(2),
                                  Stamp(9)).data,
                         [title |-> "Tronos"])]>> }

\* snap.docs.map((d) => ({id: d.id, ...d.data()}))
RouletteRows(snap) == [i \in 1..Len(snap) |-> Spread([id |-> snap[i].id], snap[i].data)]

\* list.filter((x) => x.status !== "done")
RECURSIVE NotDone(_)
NotDone(list) ==
    IF list = << >> THEN << >>
    ELSE (IF Head(list).status # "done" THEN <<Head(list)>> ELSE << >>)
         \o NotDone(Tail(list))

\* A filter that keeps everything
Filtered_All(list, incl) == list

\* includeDone ? list : list.filter(...)
Filtered(list, incl) == IF incl THEN list ELSE NotDone(list)

PlanCandidatesOf(list, incl) ==
    LET filtered == Filtered(list, incl) IN
    [i \in 1..Len(filtered) |->
        [kind |-> "plan", id |-> filtered[i].id, title |-> filtered[i].title,
         status |-> filtered[i].status]]

WatchCandidatesOf(list, incl) ==
    LET filtered == Filtered(list, incl) IN
    [i \in 1..Len(filtered) |->
        [kind |-> "watch", id |-> filtered[i].id, title |-> filtered[i].title,
         mediaType |-> filtered[i].mediaType, status |-> filtered[i].status,
         season |-> filtered[i].season, episode |-> filtered[i].episode]]

planCandidates == PlanCandidatesOf(roulettePlans, includeDone)
watchCandidates == WatchCandidatesOf(rouletteWatch, includeDone)

pool ==
    IF source = "plans" THEN planCandidates
    ELSE IF source = "watch" THEN watchCandidates
    ELSE planCandidates \o watchCandidates

\* a sequence of the least length whatever the pool
Steps_Least(len) == MinSteps

\* Math.min(36, Math.max(18, pool.length + 12))
Steps(len) == Min(MaxSteps, Max(MinSteps, len + StepsPad))

\* Math.round(num / den) for num >= 0, den > 0
Round(num, den) == (2 * num + den) \div (2 * den)

\* a delay growing with t instead of t * t
Delay_Linear(i, n) == BaseDelay + Round(EaseDelay * i, n - 1)

\* delay of step i of n: 45 + Math.round(240 * t * t), t = i / (n - 1)
Delay(i, n) == BaseDelay + Round(EaseDelay * i * i, (n - 1) * (n - 1))

\* total after step i: the time step i's timer is set for
RECURSIVE Total(_, _)
Total(i, n) == IF i = 0 THEN Delay(0, n) ELSE Total(i - 1, n) + Delay(i, n)

\* the totals of every sequence length spin() can produce
Totals == [n \in MinSteps..MaxSteps |-> [i \in 0..(n - 1) |-> Total(i, n)]]

\* The k-th value Math.random returns during one spin, as a numerator over
\* RandRes, along the stream chosen by a and b.
Random(a, b, k) == (a + b * k) % RandRes

\* p[Math.floor(Math.random() * p.length)], on the k-th random value
Pick(p, a, b, k) == p[((Random(a, b, k) * Len(p)) \div RandRes) + 1]

\* seq of spin() with final put first instead of last
SeqOf_FinalFirst(p, a, b) ==
    [i \in 1..Steps(Len(p)) |->
        IF i = 1 THEN Pick(p, a, b, 0) ELSE Pick(p, a, b, i - 1)]

\* seq of spin(): final is picked first, then steps - 1 picks are pushed,
\* then final
SeqOf(p, a, b) ==
    [i \in 1..Steps(Len(p)) |->
        IF i < Steps(Len(p)) THEN Pick(p, a, b, i) ELSE Pick(p, a, b, 0)]

\* The timers spin() sets in draw d: one per element of sq, each showing
\* its element, and the closing one, which sets final.
TimersOf(sq, final, d) ==
    { [id |-> <<d, i>>, due |-> Totals[Len(sq)][i - 1], end |-> FALSE,
       show |-> sq[i]] : i \in 1..Len(sq) }
    \cup { [id |-> <<d, Len(sq) + 1>>,
            due |-> Totals[Len(sq)][Len(sq) - 1] + EndDelay,
            end |-> TRUE, show |-> final] }

\* useState and useRef defaults of RoulettePage
RouletteConstructed ==
    /\ roulettePlans = << >>
    /\ rouletteWatch = << >>
    /\ source = "mix"
    /\ includeDone = FALSE
    /\ spinning = FALSE
    /\ highlight = NoCandidate
    /\ winner = NoCandidate
    /\ rouletteErr = "null"
    /\ timeoutsRef = {}
    /\ timers = {}
    /\ seq = << >>
    /\ startPool = << >>
    /\ draws = 0

\* onSnapshot callback of the plans subscription
RoulettePlansSnapshot(snap) ==
    /\ screen = "/ruleta"
    /\ roulettePlans' = RouletteRows(snap)
    /\ UNCHANGED <<rouletteWatch, source, includeDone, spinning,
                   highlight, winner, rouletteErr, timeoutsRef, timers, seq,
                   startPool, draws>>
    /\ lastOp' = "RoulettePlansSnapshot"

\* onSnapshot callback of the watchlist subscription
RouletteWatchSnapshot(snap) ==
    /\ screen = "/ruleta"
    /\ rouletteWatch' = RouletteRows(snap)
    /\ UNCHANGED <<roulettePlans, source, includeDone, spinning,
                   highlight, winner, rouletteErr, timeoutsRef, timers, seq,
                   startPool, draws>>
    /\ lastOp' = "RouletteWatchSnapshot"

\* error callback of either subscription: console.warn, no state is set
RouletteSnapshotError(coll) ==
    /\ screen = "/ruleta"
    /\ coll \in {"plans", "watchlist"}
    /\ UNCHANGED rouletteVars
    /\ lastOp' = "RouletteSnapshotError"

\* the three source buttons, disabled while spinning
setSource(s) ==
    /\ screen = "/ruleta"
    /\ ~spinning
    /\ source' = s
    /\ UNCHANGED <<roulettePlans, rouletteWatch, includeDone,
                   spinning, highlight, winner, rouletteErr, timeoutsRef,
                   timers, seq, startPool, draws>>
    /\ lastOp' = "setSource"

\* the checkbox, disabled while spinning
setIncludeDone(v) ==
    /\ screen = "/ruleta"
    /\ ~spinning
    /\ includeDone' = v
    /\ UNCHANGED <<roulettePlans, rouletteWatch, source,
                   spinning, highlight, winner, rouletteErr, timeoutsRef,
                   timers, seq, startPool, draws>>
    /\ lastOp' = "setIncludeDone"

\* The Girar button is enabled with a non-empty pool and no draw running;
\* the Girar otra vez button is rendered with a highlight and a winner.
SpinButton == ~spinning /\ pool # << >>
SpinAgainButton == highlight # NoCandidate /\ winner # NoCandidate

\* A clearing that cancels nothing
clearTimers_Nothing(set, ref) == set

\* clearTimers(), and the cleanup on unmount: the timers whose ids are in
\* timeoutsRef.current are cancelled; what is left of those set
clearTimers(set, ref) == {t \in set : t.id \notin ref}

\* A handler with no guard on a running draw
AlreadySpinning_Never == FALSE

\* if (spinning) return
AlreadySpinning == spinning

\* spin(), with a and b choosing what Math.random returns
spin(a, b) ==
    /\ screen = "/ruleta"
    /\ IF AlreadySpinning
       THEN UNCHANGED <<spinning, highlight, winner, rouletteErr, timeoutsRef,
                        timers, seq, startPool, draws>>
       ELSE IF pool = << >>
       THEN /\ winner' = NoCandidate
            /\ rouletteErr' = MsgEmptyPool
            /\ UNCHANGED <<spinning, highlight, timeoutsRef, timers, seq,
                           startPool, draws>>
       ELSE /\ draws < MaxDraws
            /\ rouletteErr' = "null"
            /\ winner' = NoCandidate
            /\ spinning' = TRUE
            /\ startPool' = pool
            /\ seq' = SeqOf(startPool', a, b)
            /\ draws' = draws + 1
            \* clearTimers(), then the new timers and their ids
            /\ timers' = clearTimers(timers, timeoutsRef)
                            \cup TimersOf(seq', Pick(startPool', a, b, 0), draws')
            /\ timeoutsRef' = {<<draws', i>> : i \in 1..(Len(seq') + 1)}
            /\ UNCHANGED highlight
    /\ UNCHANGED <<roulettePlans, rouletteWatch, source,
                   includeDone>>
    /\ lastOp' = "spin"

\* the timer due last of those set
NextTimer_Latest == CHOOSE t \in timers : \A o \in timers : t.due >= o.due

\* the timer due first of those set
NextTimer == CHOOSE t \in timers : \A o \in timers : t.due <= o.due

\* The browser runs the callback of the timer due first.
TimerFires ==
    /\ screen = "/ruleta"
    /\ timers # {}
    /\ timers' = timers \ {NextTimer}
    /\ highlight' = NextTimer.show
    /\ IF NextTimer.end
       THEN winner' = NextTimer.show /\ spinning' = FALSE
       ELSE UNCHANGED <<winner, spinning>>
    /\ UNCHANGED <<roulettePlans, rouletteWatch, source,
                   includeDone, rouletteErr, timeoutsRef, seq, startPool,
                   draws>>
    /\ lastOp' = "TimerFires"

(***************************************************************************)
(* The list pages in the app: mounting, subscriptions, settled writes      *)
(***************************************************************************)
PagesInit ==
    /\ plans = << >>
    /\ plansLoading = TRUE
    /\ planForm = PlanFormDefault
    /\ items = << >>
    /\ selected = NoSelection
    /\ DetailsConstructed
    /\ goals = << >>
    /\ goalsLoading = TRUE
    /\ goalForm = GoalFormDefault
    /\ sub = << >>
    /\ delivered = NoSnapshot
    /\ watchlistDocs = << >>
    /\ writes = << >>

\* The subscription effect of the page on screen: it subscribes only with
\* auth resolved and an identity, which is when the gate shows the page.
SubFor(scr) == IF scr \in ListPages THEN CollectionOf(scr) ELSE "none"

\* A run of the subscription effect, on mount, on unmount, or when user or
\* authLoading changed: the cleanup of the previous run, then the body,
\* which opens a listener unless it returns early.
SubscriptionEffect(ls, scr) ==
    IF SubFor(scr) = "none" THEN Unsubscribed(ls)
    ELSE Append(Unsubscribed(ls), SubFor(scr))

\* AuthProvider resolves while a list page is the requested path.
MirrorAuthResolved ==
    /\ authLoading
    /\ authLoading' = FALSE
    /\ user' = session
    /\ UNCHANGED <<session, pathname, locState, loginVars, logoutPending>>
    /\ Rerender
    /\ sub' = SubscriptionEffect(sub, screen')
    /\ delivered' = NoSnapshot
    /\ UNCHANGED watchlistDocs
    /\ UNCHANGED <<plansVars, watchVars, goalsVars, writes>>
    /\ RouletteIdle
    /\ lastOp' = "MirrorAuthResolved"

\* A HomeLayout link to another list page: the page on screen unmounts
\* (unsubscribing), the other mounts with its useState defaults. The calls
\* of the unmounted page resume into a component that is gone (their state
\* setters do nothing), so they are tracked no further.
MirrorLinkClick(p) ==
    /\ screen \in ListPages
    /\ p \in ListPages \ {pathname}
    /\ UNCHANGED <<authVars, loginVars, logoutPending>>
    /\ pathname' = p
    /\ locState' = NoState
    /\ screen' = Render(p, authLoading, user)
    /\ plans' = << >>
    /\ plansLoading' = TRUE
    /\ planForm' = PlanFormDefault
    /\ items' = << >>
    /\ selected' = NoSelection
    /\ goals' = << >>
    /\ goalsLoading' = TRUE
    /\ goalForm' = GoalFormDefault
    /\ sub' = SubscriptionEffect(sub, screen')
    /\ delivered' = NoSnapshot
    /\ UNCHANGED watchlistDocs
    /\ writes' = << >>
    /\ RouletteIdle
    /\ lastOp' = "MirrorLinkClick"

\* AuthProvider delivers another value of the session stream while a list
\* page is on screen: another identity re-runs the page's subscription
\* effect (user is a dependency), PlansPage's body calling setLoading(true)
\* first; no identity makes the gate unmount the page.
MirrorAuthStateChanged(u) ==
    /\ screen \in ListPages
    /\ u # user
    /\ session' = u
    /\ user' = u
    /\ UNCHANGED <<authLoading, pathname, locState, loginVars, logoutPending>>
    /\ Rerender
    /\ sub' = SubscriptionEffect(sub, screen')
    /\ plansLoading' = IF screen' = "/planes" THEN TRUE ELSE plansLoading
    /\ UNCHANGED <<plans, planForm, watchVars, goalsVars, delivered, watchlistDocs, writes>>
    /\ RouletteIdle
    /\ lastOp' = "MirrorAuthStateChanged"

\* Continuation applying a resolved delete to the local rows
Continuation_Optimistic(w) ==
    IF w.op = "deleteDoc"
    THEN /\ plans' = << >>
         /\ items' = << >>
         /\ goals' = << >>
         /\ UNCHANGED <<plansLoading, planForm, selected, goalsLoading, goalForm>>
    ELSE UNCHANGED <<plansVars, watchVars, goalsVars>>

\* What runs after the await of the handler that made call w.
Continuation(w) ==
    IF w.by = "createPlan"
    THEN /\ planForm' = PlanFormDefault
         /\ UNCHANGED <<plans, plansLoading, watchVars, goalsVars>>
    ELSE IF w.by = "addToPending"
    THEN /\ selected' = w.ctx.sel
         /\ UNCHANGED <<plansVars, items, goalsVars>>
    ELSE IF w.by \in {"createGoal", "saveGoal"}
            \/ (w.by = "removeGoal" /\ w.ctx.editing)
    THEN /\ goalForm' = GoalFormDefault
         /\ UNCHANGED <<plansVars, watchVars, goals, goalsLoading>>
    ELSE UNCHANGED <<plansVars, watchVars, goalsVars>>

\* The database acknowledges write i: the handler resumes after its await.
WriteResolved(i) ==
    /\ i \in 1..Len(writes)
    /\ writes' = RemoveAt(writes, i)
    /\ Continuation(writes[i])
    /\ UNCHANGED <<sub, delivered, watchlistDocs>>
    /\ lastOp' = "WriteResolved"

\* The database rejects write i: the await throws, nothing after it runs.
WriteRejected(i) ==
    /\ i \in 1..Len(writes)
    /\ writes' = RemoveAt(writes, i)
    /\ UNCHANGED <<plansVars, watchVars, goalsVars, sub, delivered, watchlistDocs>>
    /\ lastOp' = "WriteRejected"

\* Most documents of the watchlist collection that are followed.
MaxStored == 2

\* The document addDoc creates from the data of call w: the n-th of the
\* collection, its createdAt stamped by the server.
StoredDoc(w, n) ==
    WatchDoc("w" \o ToString(n), w.data.tmdbId.num, w.data.mediaType.str,
             w.data.status.str, w.data.season, w.data.episode, Stamp(n))

\* The database accepts the addDoc of addToPending and the await resumes,
\* with the collection followed: the document is in it from now on.
AddResolved(i) ==
    /\ i \in 1..Len(writes)
    /\ writes[i].op = "addDoc" /\ writes[i].coll = "watchlist"
    /\ Len(watchlistDocs) < MaxStored
    /\ writes' = RemoveAt(writes, i)
    /\ Continuation(writes[i])
    /\ watchlistDocs' = Append(watchlistDocs,
                               StoredDoc(writes[i], Len(watchlistDocs) + 1))
    /\ UNCHANGED <<sub, delivered>>
    /\ lastOp' = "AddResolved"

AuthIdle == UNCHANGED <<authVars, routeVars, loginVars, logoutPending>>
OthersIdle == AuthIdle /\ RouletteIdle /\ DetailsIdle

MirrorInit ==
    /\ authLoading = TRUE
    /\ user = NoUser
    /\ session \in Uids
    /\ pathname \in ListPages
    /\ locState = NoState
    /\ screen = Render(pathname, TRUE, NoUser)
    /\ username = U_empty
    /\ pass = ""
    /\ loading = FALSE
    /\ err = ""
    /\ signIn = NoCall
    /\ signInCalls = 0
    /\ logoutPending = FALSE
    /\ PagesInit
    /\ RouletteConstructed
    /\ lastOp = "Init"

MirrorNext ==
    \/ MirrorAuthResolved /\ DetailsIdle
    \/ \E p \in ListPages : MirrorLinkClick(p) /\ DetailsIdle
    \/ \E f \in {"title"}, v \in Titles : setPlanForm(f, v) /\ OthersIdle
    \/ \E v \in Descriptions : setPlanForm("description", v) /\ OthersIdle
    \/ \E v \in LinksTexts : setPlanForm("linksText", v) /\ OthersIdle
    \/ \E snap \in PlanSnapshots : PlansSnapshot(snap) /\ OthersIdle
    \/ PlansSnapshotError /\ OthersIdle
    \/ createPlan /\ OthersIdle
    \/ \E id \in PlanIds(plans), patch \in Patches : patchPlan(id, patch) /\ OthersIdle
    \/ \E id \in PlanIds(plans) : removePlan(id) /\ OthersIdle
    \/ \E snap \in WatchSnapshots : WatchSnapshot(snap) /\ OthersIdle
    \/ WatchSnapshotError /\ OthersIdle
    \/ \E r \in SearchResults : setSelected([mediaType |-> r.media_type, tmdbId |-> r.id]) /\ OthersIdle
    \/ \E r \in SearchResults : addToPending(r) /\ OthersIdle
    \/ \E id \in ItemIds(items), st \in WatchStatuses : setStatus(id, st) /\ OthersIdle
    \/ \E id \in ItemIds(items), se \in {<<1, 2>>, <<2, 1>>} : updateProgress(id, se[1], se[2]) /\ OthersIdle
    \/ \E id \in ItemIds(items), ok \in BOOLEAN : removeItem(id, ok) /\ OthersIdle
    \/ \E snap \in GoalSnapshots : GoalsSnapshot(snap) /\ OthersIdle
    \/ GoalsSnapshotError /\ OthersIdle
    \/ \E id \in ItemIds(goals) : loadToForm(id) /\ OthersIdle
    \/ resetForm /\ OthersIdle
    \/ \E t \in {T_empty, T_CinePadded} : setGoalTitle(t) /\ OthersIdle
    \/ createGoal /\ OthersIdle
    \/ saveGoal /\ OthersIdle
    \/ \E id \in ItemIds(goals) : toggleDone(id) /\ OthersIdle
    \/ \E id \in ItemIds(goals) : togglePaused(id) /\ OthersIdle
    \/ \E id \in ItemIds(goals) : removeGoal(id) /\ OthersIdle
    \/ \E i \in 1..MaxInFlight : WriteResolved(i) /\ OthersIdle
    \/ \E i \in 1..MaxInFlight : WriteRejected(i) /\ OthersIdle

SpecMirror == MirrorInit /\ [][MirrorNext]_vars

(***************************************************************************)
(* Specification of the add flow of WatchlistPage with the collection      *)
(* followed: the documents the page's addDoc calls create are kept, and    *)
(* each snapshot delivers the collection as it is. (SpecMirror leaves the  *)
(* collection to the snapshots it is given.)                               *)
(***************************************************************************)
AddsInit == MirrorInit /\ pathname = "/watchlist"

AddsNext ==
    \/ MirrorAuthResolved /\ DetailsIdle
    \/ WatchSnapshot(watchlistDocs) /\ OthersIdle
    \/ \E r \in SearchResults : addToPending(r) /\ OthersIdle
    \/ \E i \in 1..MaxInFlight : AddResolved(i) /\ OthersIdle
    \/ \E i \in 1..MaxInFlight : WriteRejected(i) /\ OthersIdle

SpecAdds == AddsInit /\ [][AddsNext]_vars

(***************************************************************************)
(* Specification of the details panel of WatchlistPage. SpecMirror leaves  *)
(* the panel as constructed; here the selection changes run the effect and *)
(* the getDetails calls settle in any order.                               *)
(***************************************************************************)
DetailsInit == MirrorInit /\ pathname = "/watchlist"

DetailsNext ==
    \/ MirrorAuthResolved /\ DetailsIdle
    \/ \E p \in ListPages : MirrorLinkClick(p) /\ DetailsUnmount
    \/ \E r \in SearchResults :
          /\ setSelected([mediaType |-> r.media_type, tmdbId |-> r.id])
          /\ DetailsEffect /\ AuthIdle /\ RouletteIdle
    \/ \E r \in SearchResults : addToPending(r) /\ OthersIdle
    \/ \E i \in 1..MaxInFlight :
          WriteResolved(i) /\ DetailsEffect /\ AuthIdle /\ RouletteIdle
    \/ \E i \in 1..MaxInFlight : WriteRejected(i) /\ OthersIdle
    \/ \E i \in 1..MaxFetches : DetailsResolved(i)
    \/ \E i \in 1..MaxFetches, m \in {Undefined, MsgTmdbError} :
          DetailsRejected(i, m)

SpecDetails == DetailsInit /\ [][DetailsNext]_vars

(***************************************************************************)
(* Specification of the progress record of GoalsPage: every stored shape   *)
(* is read through the snapshot callback, and the form's switches are set  *)
(* before the goal is created or saved. The user creates or saves with no  *)
(* earlier create or save still awaited.                                   *)
(***************************************************************************)
ProgressInit == MirrorInit /\ pathname = "/metas" /\ session = "uid-diana"

ProgressNext ==
    \/ MirrorAuthResolved /\ DetailsIdle
    \/ \E sh \in ProgressShapes :
          /\ GoalsSnapshot(<<GoalDoc("g1", Str(T_Cine), Str("active"), sh,
                                     Num(40))>>)
          /\ OthersIdle
    \/ \E id \in ItemIds(goals) : loadToForm(id) /\ OthersIdle
    \/ resetForm /\ OthersIdle
    \/ \E t \in {T_empty, T_Cine} : setGoalTitle(t) /\ OthersIdle
    \/ \E v \in BOOLEAN : setUseChecklist(v) /\ OthersIdle
    \/ \E v \in BOOLEAN : setUseMoney(v) /\ OthersIdle
    \/ createGoal /\ writes = << >> /\ OthersIdle
    \/ saveGoal /\ writes = << >> /\ OthersIdle
    \/ \E i \in 1..MaxInFlight : WriteResolved(i) /\ OthersIdle
    \/ \E i \in 1..MaxInFlight : WriteRejected(i) /\ OthersIdle

SpecProgress == ProgressInit /\ [][ProgressNext]_vars

(***************************************************************************)
(* RoulettePage in the app: mounting, and its specification                *)
(***************************************************************************)
RouletteVarsDefault ==
    /\ roulettePlans' = << >>
    /\ rouletteWatch' = << >>
    /\ source' = "mix"
    /\ includeDone' = FALSE
    /\ spinning' = FALSE
    /\ highlight' = NoCandidate
    /\ winner' = NoCandidate
    /\ rouletteErr' = "null"
    /\ timeoutsRef' = {}
    /\ seq' = << >>
    /\ startPool' = << >>
    /\ draws' = 0

\* The page unmounts: both listeners are unsubscribed (their callbacks run
\* only while the page is on screen), the cleanup effect
\* clears the timers of timeoutsRef, the component's state is dropped.
RouletteUnmount(to) ==
    /\ pathname' = to
    /\ locState' = NoState
    /\ screen' = Render(to, authLoading, user)
    /\ timers' = clearTimers(timers, timeoutsRef)
    /\ RouletteVarsDefault
    /\ sub' = SubscriptionEffect(sub, screen')
    /\ UNCHANGED <<authVars, loginVars, logoutPending, plansVars, watchVars,
                   detailsVars, goalsVars, delivered, watchlistDocs, writes>>

\* A HomeLayout link from the roulette to a list page
RouletteLeave(p) ==
    /\ screen = "/ruleta"
    /\ p \in ListPages
    /\ RouletteUnmount(p)
    /\ lastOp' = "RouletteLeave"

\* goToWinner(): to the page of the winner's kind
goToWinner ==
    /\ screen = "/ruleta"
    /\ SpinAgainButton
    /\ IF winner = NoCandidate
       THEN UNCHANGED vars
       ELSE /\ RouletteUnmount(IF winner.kind = "plan" THEN "/planes"
                               ELSE "/watchlist")
            /\ lastOp' = "goToWinner"

\* The HomeLayout link to the roulette: the page mounts with its defaults
\* and subscribes to both collections.
RouletteEnter ==
    /\ screen \in ListPages
    /\ pathname' = "/ruleta"
    /\ locState' = NoState
    /\ screen' = Render("/ruleta", authLoading, user)
    /\ sub' = Unsubscribed(sub)
    /\ UNCHANGED <<authVars, loginVars, logoutPending, plansVars, watchVars,
                   detailsVars, goalsVars, delivered, watchlistDocs, writes, roulettePlans,
                   rouletteWatch,
                   source, includeDone, spinning, highlight, winner,
                   rouletteErr, timeoutsRef, timers, seq, startPool, draws>>
    /\ lastOp' = "RouletteEnter"

\* Signed in, with the roulette on screen and freshly mounted.
RouletteInit ==
    /\ authLoading = FALSE
    /\ session \in Uids
    /\ user = session
    /\ pathname = "/ruleta"
    /\ locState = NoState
    /\ screen = Render("/ruleta", FALSE, session)
    /\ username = U_empty
    /\ pass = ""
    /\ loading = FALSE
    /\ err = ""
    /\ signIn = NoCall
    /\ signInCalls = 0
    /\ logoutPending = FALSE
    /\ PagesInit
    /\ roulettePlans = << >>
    /\ rouletteWatch = << >>
    /\ source = "mix"
    /\ includeDone = FALSE
    /\ spinning = FALSE
    /\ highlight = NoCandidate
    /\ winner = NoCandidate
    /\ rouletteErr = "null"
    /\ timeoutsRef = {}
    /\ timers = {}
    /\ seq = << >>
    /\ startPool = << >>
    /\ draws = 0
    /\ lastOp = "Init"

ListPagesIdle == UNCHANGED <<mirrorVars, detailsVars>>

RouletteNext ==
    \/ \E snap \in RoulettePlanSnapshots :
          RoulettePlansSnapshot(snap) /\ AuthIdle /\ ListPagesIdle
    \/ \E snap \in RouletteWatchSnapshots :
          RouletteWatchSnapshot(snap) /\ AuthIdle /\ ListPagesIdle
    \/ \E coll \in {"plans", "watchlist"} :
          RouletteSnapshotError(coll) /\ AuthIdle /\ ListPagesIdle
    \/ \E s \in {"mix", "plans", "watch"} :
          setSource(s) /\ AuthIdle /\ ListPagesIdle
    \/ \E v \in BOOLEAN : setIncludeDone(v) /\ AuthIdle /\ ListPagesIdle
    \/ \E a \in 0..(RandRes - 1), b \in {0, 1} :
          /\ SpinButton \/ SpinAgainButton
          /\ spin(a, b) /\ AuthIdle /\ ListPagesIdle
    \/ TimerFires /\ AuthIdle /\ ListPagesIdle
    \/ goToWinner
    \/ \E p \in ListPages : RouletteLeave(p)
    \/ RouletteEnter

\* The browser runs a timer that is due: while the page is mounted with
\* timers set, one of them eventually fires.
RouletteFairness == WF_vars(TimerFires /\ AuthIdle /\ ListPagesIdle)

SpecRoulette == RouletteInit /\ [][RouletteNext]_vars /\ RouletteFairness

\* Snapshots with items of every status in both collections
PoolPlanSnapshots ==
    RoulettePlanSnapshots
    \cup { <<PlanDoc("p3", "done", 5)>>,
           <<PlanDoc("p1", "planned", 10), PlanDoc("p2", "done", 20),
             PlanDoc("p4", "idea", 30)>> }

PoolWatchDoc(id, tmdbId, mediaType, st, title) ==
    [id |-> id,
     data |-> Spread(WatchDoc(id, tmdbId, mediaType, st, Null, Null,
                              Stamp(9)).data,
                     [title |-> title])]

PoolWatchSnapshots ==
    RouletteWatchSnapshots
    \cup { <<PoolWatchDoc("w3", 603, "movie", "done", "Matrix")>>,
           <<PoolWatchDoc("w1", 7, "tv", "pending", "Sin titulo"),
             PoolWatchDoc("w3", 603, "movie", "done", "Matrix")>> }

\* The candidates of the roulette: snapshots of both collections and the
\* two settings, with no draw made.
PoolNext ==
    \/ \E snap \in PoolPlanSnapshots :
          RoulettePlansSnapshot(snap) /\ AuthIdle /\ ListPagesIdle
    \/ \E snap \in PoolWatchSnapshots :
          RouletteWatchSnapshot(snap) /\ AuthIdle /\ ListPagesIdle
    \/ \E s \in {"mix", "plans", "watch"} :
          setSource(s) /\ AuthIdle /\ ListPagesIdle
    \/ \E v \in BOOLEAN : setIncludeDone(v) /\ AuthIdle /\ ListPagesIdle

SpecPool == RouletteInit /\ [][PoolNext]_vars

\* The roulette with spin() also called while a draw runs, which neither
\* button allows: the handler's own guard is then all that stands.
SpinCallsNext ==
    \/ RouletteNext
    \/ \E a \in 0..(RandRes - 1), b \in {0, 1} :
          spinning /\ spin(a, b) /\ AuthIdle /\ ListPagesIdle

SpecSpinCalls == RouletteInit /\ [][SpinCallsNext]_vars

\* Sizes of the plans collection the draws are made from: below and above
\* the sizes where the sequence length starts to grow and where it stops.
PoolSizes == {1, 6, 7, 13, 24, 25}

\* a snapshot of n plans that are not done
PlansOfSize(n) == [i \in 1..n |-> PlanDoc("p" \o ToString(i), "idea", 10 * i)]

\* Draws over pools of every size in PoolSizes, each followed through its
\* timers; the collection changes between the draws.
DrawNext ==
    \/ \E n \in PoolSizes :
          /\ ~spinning
          /\ RoulettePlansSnapshot(PlansOfSize(n)) /\ AuthIdle /\ ListPagesIdle
    \/ \E a \in 0..(RandRes - 1), b \in {0, 1} :
          /\ SpinButton \/ SpinAgainButton
          /\ spin(a, b) /\ AuthIdle /\ ListPagesIdle
    \/ TimerFires /\ AuthIdle /\ ListPagesIdle

SpecDraw == RouletteInit /\ [][DrawNext]_vars

(***************************************************************************)
(* Specification of the session gate, routing and login                    *)
(***************************************************************************)
Init ==
    /\ authLoading = TRUE
    /\ user = NoUser
    /\ session \in Uids \cup {NoUser}
    /\ pathname \in Paths
    /\ locState = NoState
    /\ screen = Render(pathname, TRUE, NoUser)
    /\ username = U_empty
    /\ pass = ""
    /\ loading = FALSE
    /\ err = ""
    /\ signIn = NoCall
    /\ signInCalls = 0
    /\ logoutPending = FALSE
    /\ PagesInit
    /\ RouletteConstructed
    /\ lastOp = "Init"

Next ==
    \/ \E p \in Paths : Visit(p)
    \/ AuthResolved
    \/ AuthStateChanged
    \/ RequireAuthRedirect
    \/ IndexRedirect
    \/ CatchAllRedirect
    \/ LoginRedirectEffect
    \/ \E p \in ProtectedPages : LinkClick(p)
    \/ logout
    \/ logoutNav
    \/ \E u \in Usernames : setUsername(u)
    \/ \E p \in Passwords : setPass(p)
    \/ onLogin
    \/ SignInAccepted
    \/ onLoginResolved
    \/ \E code \in ErrorCodes : SignInRejected(code)
    \/ onLoginRejected

Spec == Init /\ [][Next]_vars

(***************************************************************************)
(* Specification of the listeners of the list pages: the pages mount and   *)
(* unmount, the identity changes under a mounted page, and the listeners   *)
(* deliver snapshots and errors.                                           *)
(***************************************************************************)
SubsNext ==
    \/ MirrorAuthResolved /\ DetailsIdle
    \/ \E p \in ListPages : MirrorLinkClick(p) /\ DetailsIdle
    \/ \E u \in Uids \cup {NoUser} : MirrorAuthStateChanged(u) /\ DetailsIdle
    \/ RouletteEnter
    \/ \E p \in ListPages : RouletteLeave(p)
    \/ \E snap \in PlanSnapshots : PlansSnapshot(snap) /\ OthersIdle
    \/ PlansSnapshotError /\ OthersIdle
    \/ \E snap \in WatchSnapshots : WatchSnapshot(snap) /\ OthersIdle
    \/ WatchSnapshotError /\ OthersIdle
    \/ \E snap \in GoalSnapshots : GoalsSnapshot(snap) /\ OthersIdle
    \/ GoalsSnapshotError /\ OthersIdle

SpecSubs == MirrorInit /\ [][SubsNext]_vars

\* The app loaded once at any path: Next without a reload. What React and
\* the auth service do on their own comes about: a <Navigate> that is
\* rendered navigates, the login page's effect runs, the session stream
\* delivers its values.
RoutingNext ==
    \/ AuthResolved
    \/ AuthStateChanged
    \/ RequireAuthRedirect
    \/ IndexRedirect
    \/ CatchAllRedirect
    \/ LoginRedirectEffect
    \/ \E p \in ProtectedPages : LinkClick(p)
    \/ logout
    \/ logoutNav
    \/ \E u \in Usernames : setUsername(u)
    \/ \E p \in Passwords : setPass(p)
    \/ onLogin
    \/ SignInAccepted
    \/ onLoginResolved
    \/ \E code \in ErrorCodes : SignInRejected(code)
    \/ onLoginRejected

RoutingFairness ==
    /\ WF_vars(AuthResolved)
    /\ WF_vars(AuthStateChanged)
    /\ WF_vars(RequireAuthRedirect)
    /\ WF_vars(IndexRedirect)
    /\ WF_vars(CatchAllRedirect)
    /\ WF_vars(LoginRedirectEffect)

SpecRouting == Init /\ [][RoutingNext]_vars /\ RoutingFairness

\* The login form: once the awaited sign-in call has settled, the rest of
\* onLogin (the navigation or the catch block, then the finally block) runs
\* as a promise continuation.
LoginFairness == WF_vars(onLoginResolved) /\ WF_vars(onLoginRejected)

SpecLogin == Init /\ [][RoutingNext]_vars /\ LoginFairness

(***************************************************************************)
(* Claims about the login form and the session gate (checked under Spec)   *)
(***************************************************************************)
Whitelisted == {U_camilo, U_diana}
LocalValidationErrors == {MsgNotAllowed, MsgNoPassword}
GatedPaths == ProtectedPages \cup {"/"}

\* C1: a submit whose trimmed, lower-cased username is not camilo or diana
\* leaves a local validation error in the form and makes no call to the
\* sign-in service, whatever the password.
C1_UnknownUserNoCall ==
    [][(lastOp' = "onLogin" /\ normalizeUser(username) \notin Whitelisted)
        => (/\ err' \in LocalValidationErrors
            /\ signInCalls' = signInCalls
            /\ signIn' = signIn)]_vars

\* C6: the protected subtree is rendered only with auth resolved and an
\* identity present; while auth is pending a gated path shows the placeholder
\* and the gate does not redirect; resolved without identity, the gate
\* renders the redirect, which goes to /login carrying the requested path.
C6_SessionGate ==
    /\ [](screen \in ProtectedPages \cup {"NavigateWatchlist"}
            => (~authLoading /\ user # NoUser))
    /\ []((pathname \in GatedPaths /\ authLoading) => screen = "Cargando")
    /\ []((pathname \in GatedPaths /\ ~authLoading /\ user = NoUser)
            => screen = "NavigateLogin")
    /\ [][lastOp' = "RequireAuthRedirect"
            => (/\ ~authLoading /\ user = NoUser
                /\ pathname \in GatedPaths
                /\ pathname' = "/login"
                /\ locState' = pathname)]_vars

C6_Witness ==
    /\ lastOp = "RequireAuthRedirect"
    /\ pathname = "/login"
    /\ locState = "/planes"

\* C7: leaving the login page goes to the path the gate attached, or to
\* /watchlist when none was attached, and only after the sign-in call
\* succeeded or with an identity present once auth has resolved.
C7_PostLoginTarget ==
    /\ [](locState # NoState => (pathname = "/login" /\ locState \in GatedPaths))
    /\ []((signIn.st \in {"pending", "ok"} /\ pathname = "/login")
            => signIn.from = (IF locState # NoState THEN locState ELSE "/watchlist"))
    /\ [][lastOp' = "LoginRedirectEffect"
            => (/\ ~authLoading /\ user # NoUser
                /\ pathname' = (IF locState # NoState THEN locState ELSE "/watchlist"))]_vars
    /\ [][lastOp' = "onLoginResolved"
            => (/\ signIn.st = "ok" /\ session # NoUser
                /\ pathname' = signIn.from)]_vars
    /\ [][(pathname = "/login" /\ pathname' # "/login" /\ lastOp' # "Visit")
            => lastOp' \in {"LoginRedirectEffect", "onLoginResolved"}]_vars

C7_Witness ==
    /\ lastOp = "onLoginResolved"
    /\ pathname = "/planes"
    /\ signInCalls = 1

(***************************************************************************)
(* Properties of the list pages, checked under SpecMirror                  *)
(***************************************************************************)
\* number of places of list holding x
Occurrences(list, x) == Cardinality({j \in 1..Len(list) : list[j] = x})

RECURSIVE SumLen(_, _)
SumLen(buckets, S) ==
    IF S = {} THEN 0
    ELSE LET st == CHOOSE x \in S : TRUE
         IN Len(buckets[st]) + SumLen(buckets, S \ {st})

\* buckets (one per status) partition list by the status field
Partitions(list, buckets) ==
    /\ \A i \in 1..Len(list) : \A st \in DOMAIN buckets :
          Occurrences(buckets[st], list[i])
              = (IF list[i].status = st THEN 1 ELSE 0)
    /\ SumLen(buckets, DOMAIN buckets) = Len(list)

WatchBuckets ==
    [st \in WatchStatuses |->
        IF st = "pending" THEN pending
        ELSE IF st = "watching" THEN watching ELSE done]

\* C4: on each list page the three status buckets partition the local
\* snapshot: every item is in exactly one bucket, the one its status names,
\* and the bucket sizes sum to the number of items.
C4_BucketsPartition ==
    /\ Partitions(plans, grouped)
    /\ Partitions(items, WatchBuckets)
    /\ Partitions(goals, GoalsGrouped(goals))

\* a goals notification with a document lacking a status has been bucketed
C4_Witness ==
    /\ lastOp = "GoalsSnapshot"
    /\ Len(goals) = 2
    /\ Len(GoalsGrouped(goals)["active"]) = 1
    /\ Len(GoalsGrouped(goals)["done"]) = 1

\* C5: every delete call in flight was confirmed by the user.
C5_DeleteConfirmed ==
    \A i \in 1..Len(writes) :
        writes[i].op = "deleteDoc" => writes[i].confirmed

\* the row a document stands for: {id: d.id, ...d.data()}
RowOf(d) == Spread([id |-> d.id], d.data)

\* C8: the local collection holds the documents of the last notification
\* delivered and nothing else (it is empty before the first); plans and
\* goals keep the delivered order, watchlist rows are the delivered
\* documents re-sorted.
C8_FullRefresh ==
    /\ Len(plans) = (IF screen = "/planes" THEN Len(delivered) ELSE 0)
    /\ Len(items) = (IF screen = "/watchlist" THEN Len(delivered) ELSE 0)
    /\ Len(goals) = (IF screen = "/metas" THEN Len(delivered) ELSE 0)
    /\ screen = "/planes"
          => \A i \in 1..Len(delivered) : plans[i] = RowOf(delivered[i])
    /\ screen = "/watchlist"
          => \A i \in 1..Len(delivered) :
                Occurrences(items, RowOf(delivered[i])) = 1
    /\ screen = "/metas"
          => \A i \in 1..Len(delivered) : goals[i].id = delivered[i].id

\* an empty notification has replaced rows a delete was issued on
C8_Witness ==
    /\ lastOp = "PlansSnapshot"
    /\ plans = << >>
    /\ \E i \in 1..Len(writes) : writes[i].by = "removePlan"

WriteHandlers ==
    {"createPlan", "patchPlan", "removePlan",
     "addToPending", "setStatus", "updateProgress", "removeItem",
     "createGoal", "saveGoal", "toggleDone", "togglePaused", "removeGoal"}

\* C9: issuing a write, and its success or failure, leave the local
\* collections as they are; while a page stays mounted only a snapshot
\* notification changes its collection.
C9_WritesLeaveMirror ==
    /\ [][lastOp' \in WriteHandlers \cup {"WriteResolved", "WriteRejected"}
            => UNCHANGED <<plans, items, goals>>]_vars
    /\ [][(<<plans, items, goals>>' # <<plans, items, goals>>
           /\ pathname' = pathname)
            => lastOp' \in {"PlansSnapshot", "WatchSnapshot", "GoalsSnapshot"}]_vars

\* a delete has resolved with the rows it was issued on still held
C9_Witness ==
    /\ lastOp = "WriteResolved"
    /\ Len(items) = 3
    /\ writes = << >>

AuditKeys == {"updatedByUid", "updatedByEmail", "updatedByName", "updatedAt"}

\* updateDoc(ref, data) on a stored document: the fields of data are set,
\* every other field keeps its value
updateDoc(stored, data) == Spread(stored, data)

WatchDocs == UNION {{snap[i] : i \in 1..Len(snap)} : snap \in WatchSnapshots}

\* C10: a patchPlan call sends the patch's defined entries and the four
\* audit fields, nothing else and nothing undefined; a setStatus call sends
\* status and the four audit fields, so a stored series keeps its season
\* and episode.
C10_UpdateFields ==
    \A i \in 1..Len(writes) :
        LET w == writes[i] IN
        /\ w.by = "patchPlan"
              => /\ DOMAIN w.data
                      = {k \in DOMAIN w.ctx.patch : w.ctx.patch[k] # Undef}
                          \cup AuditKeys
                 /\ \A k \in DOMAIN w.data : w.data[k] # Undef
                 /\ \A k \in DOMAIN w.data \ AuditKeys :
                        w.data[k] = w.ctx.patch[k]
        /\ w.by = "setStatus"
              => /\ DOMAIN w.data = {"status"} \cup AuditKeys
                 /\ \A d \in WatchDocs :
                        /\ updateDoc(d.data, w.data).season = d.data.season
                        /\ updateDoc(d.data, w.data).episode = d.data.episode

\* a patch carrying an undefined entry is in flight with that entry left out
C10_Witness ==
    \E i \in 1..Len(writes) :
        /\ writes[i].by = "patchPlan"
        /\ writes[i].ctx.patch = [title |-> Str(T_Cine), description |-> Undef,
                                  status |-> Str("done")]
        /\ DOMAIN writes[i].data = {"title", "status"} \cup AuditKeys

(***************************************************************************)
(* Properties of the roulette, checked under SpecRoulette                  *)
(***************************************************************************)
\* C2: spin() called with an empty pool and no draw running sets the error
\* and leaves winner and highlight as they were.
C2_EmptyPoolSpin ==
    [][(lastOp' = "spin" /\ ~spinning /\ pool = << >>)
        => (/\ rouletteErr' = MsgEmptyPool
            /\ winner' = winner
            /\ highlight' = highlight)]_vars

Elements(list) == {list[i] : i \in 1..Len(list)}

\* C3: a draw is started only on a non-empty pool, its sequence has
\* Steps(N) elements ending with a member of that pool; a winner, once set,
\* is that last element; and a running draw ends with a winner set unless
\* the page is left first.
C3_DrawTerminates ==
    /\ [](spinning
            => (/\ startPool # << >>
                /\ Len(seq) = Steps(Len(startPool))
                /\ seq[Len(seq)] \in Elements(startPool)))
    /\ [](winner # NoCandidate
            => (/\ ~spinning
                /\ winner \in Elements(startPool)
                /\ seq[Len(seq)] = winner))
    /\ (spinning /\ screen = "/ruleta")
          ~> ((~spinning /\ winner # NoCandidate) \/ screen # "/ruleta")

\* a draw over three candidates has ended on the third, after showing
\* another one first
C3_Witness ==
    /\ lastOp = "TimerFires"
    /\ ~spinning
    /\ Len(startPool) = 3
    /\ winner = startPool[3]
    /\ seq[1] # winner

(***************************************************************************)
(* The details panel                                                       *)
(***************************************************************************)
DetailsPanel == <<details, detailsLoading, detailsError>>
DetailsSettles == {"DetailsResolved", "DetailsRejected"}

\* C11: whatever the selection changes and the order in which the detail
\* fetches fulfil or reject, a fetch whose selection was replaced before
\* it settled leaves details, error and loading as they were; a settling
\* fetch writes them only when it is the fetch of the selection in force,
\* and nothing else writes them but the effect run of a selection change
\* and the unmount.
C11_StaleFetchDiscarded ==
    [][/\ \A i \in 1..Len(detailFetches) :
            (/\ lastOp' \in DetailsSettles
             /\ detailFetches' = RemoveAt(detailFetches, i)
             /\ detailFetches[i].replaced)
            => UNCHANGED DetailsPanel
       /\ DetailsPanel' # DetailsPanel =>
            \/ selected' # selected
            \/ lastOp' = "MirrorLinkClick"
            \/ /\ lastOp' \in DetailsSettles
               /\ \E i \in 1..Len(detailFetches) :
                     /\ detailFetches' = RemoveAt(detailFetches, i)
                     /\ ~detailFetches[i].replaced
                     /\ detailFetches[i].sel = selected]_vars

\* the fetch of a replaced selection fulfilled while the fetch of the
\* selection in force is still awaited: nothing was written
C11_Witness ==
    /\ lastOp = "DetailsResolved"
    /\ detailsLoading
    /\ details = NoDetails
    /\ Len(detailFetches) = 1
    /\ ~detailFetches[1].replaced
    /\ detailFetches[1].sel = selected

(***************************************************************************)
(* The progress record of a goal                                           *)
(***************************************************************************)
HasSubRecord(p) == p.money # Undef \/ p.checklist # Undef

\* C12: every goal read through the snapshot callback has a progress with
\* a money or a checklist sub-record, whatever shape was stored; and the
\* progress createGoal and saveGoal send has one too, even with both
\* switches off.
C12_ProgressPopulated ==
    /\ \A i \in 1..Len(goals) : HasSubRecord(goals[i].progress)
    /\ \A i \in 1..Len(writes) :
          writes[i].by \in {"createGoal", "saveGoal"}
          => HasSubRecord(writes[i].data.progress.obj)

\* a goal stored with an unknown mode is on the page, and createGoal has
\* sent a goal with both switches off
C12_Witness ==
    /\ Len(goals) = 1
    /\ Field(delivered[1].data.progress, "mode") = Str("percent")
    /\ Field(delivered[1].data.progress, "money") = Undef
    /\ ~goalForm.useChecklist
    /\ ~goalForm.useMoney
    /\ \E i \in 1..Len(writes) : writes[i].by = "createGoal"

\* C13: a goal stored in the legacy shape is read with no loss: mode
\* "money" with the numbers T and C as targetAmount and currentAmount is
\* read as money {COP, T, C} and no checklist; mode "checklist" with items
\* L is read as checklist {L} and no money.
C13_LegacyLossless ==
    \A i \in 1..Len(goals) :
        LET raw == delivered[i].data.progress
            T == Field(raw, "targetAmount")
            C == Field(raw, "currentAmount")
            L == Field(raw, "items")
            p == goals[i].progress
        IN /\ (/\ Field(raw, "mode") = Str("money")
               /\ "num" \in DOMAIN T
               /\ "num" \in DOMAIN C)
              => /\ p.money # Undef
                 /\ p.money.currency = "COP"
                 /\ Num(p.money.targetAmount) = T
                 /\ Num(p.money.currentAmount) = C
                 /\ p.checklist = Undef
           /\ (Field(raw, "mode") = Str("checklist") /\ L # Undef)
              => /\ p.checklist # Undef
                 /\ Arr(p.checklist.items) = L
                 /\ p.money = Undef

(***************************************************************************)
(* Documents the create handlers send                                      *)
(***************************************************************************)
\* the part of an address before its first @
LocalPart(e) ==
    LET at == CHOOSE k \in 1..Len(e) :
                  e[k] = "@" /\ \A j \in 1..(k - 1) : e[j] # "@"
    IN SubSeq(e, 1, at - 1)

\* display name, or else the local part of the email
ActorName(uid) ==
    IF DisplayNameOf(uid) # << >> THEN DisplayNameOf(uid)
    ELSE LocalPart(EmailOf(uid))

LastWrite == writes[Len(writes)]

\* C14: createPlan with a title that is not empty once trimmed and a user
\* signed in sends exactly one document, with the trimmed title, status
\* "idea", a numeric sort from the clock, and the uid, email and name of
\* the acting user as created-by and updated-by, the name being the display
\* name or else the local part of the email; with no description and no
\* links it carries "" and []. With an empty title or no user it sends
\* nothing.
C14_CreatePlanDocument ==
    [][lastOp' = "createPlan" =>
         IF trim(planForm.title) # << >> /\ user # NoUser
         THEN /\ Len(writes') = Len(writes) + 1
              /\ SubSeq(writes', 1, Len(writes)) = writes
              /\ LET w == writes'[Len(writes')] IN
                 /\ w.op = "addDoc" /\ w.coll = "plans"
                 /\ w.data.title = Str(trim(planForm.title))
                 /\ w.data.status = Str("idea")
                 /\ "now" \in DOMAIN w.data.sort
                 /\ w.data.createdByUid = Str(user)
                 /\ w.data.createdByEmail = Str(EmailOf(user))
                 /\ w.data.createdByName = Str(ActorName(user))
                 /\ w.data.updatedByUid = Str(user)
                 /\ w.data.updatedByEmail = Str(EmailOf(user))
                 /\ w.data.updatedByName = Str(ActorName(user))
                 /\ (planForm.description = << >> /\ Links(planForm.linksText) = << >>)
                    => (w.data.description = Str(<< >>) /\ w.data.links = Arr(<< >>))
         ELSE writes' = writes]_vars

\* camilo, who has no display name, created a plan with no description and
\* no links: the name sent is the local part of the email
C14_Witness ==
    /\ lastOp = "createPlan"
    /\ user = "uid-camilo"
    /\ writes # << >>
    /\ LastWrite.by = "createPlan"
    /\ LastWrite.data.createdByName = Str(<<"c", "a", "m">>)
    /\ LastWrite.data.description = Str(<< >>)
    /\ LastWrite.data.links = Arr(<< >>)

\* C15: the document addToPending sends has status "pending"; for a movie
\* its season and episode are both null, and they are set (to 1) only for
\* a series.
C15_AddToPendingDocument ==
    [][(lastOp' = "addToPending" /\ writes' # writes) =>
         LET w == writes'[Len(writes')] IN
         /\ w.op = "addDoc" /\ w.coll = "watchlist"
         /\ w.data.status = Str("pending")
         /\ w.data.mediaType = Str("movie")
               => (w.data.season = Null /\ w.data.episode = Null)
         /\ (w.data.season # Null \/ w.data.episode # Null)
               => w.data.mediaType = Str("tv")
         /\ w.data.mediaType = Str("tv")
               => (w.data.season = Num(1) /\ w.data.episode = Num(1))]_vars

\* a movie was added
C15_Witness ==
    /\ lastOp = "addToPending"
    /\ writes # << >>
    /\ LastWrite.by = "addToPending"
    /\ LastWrite.data.mediaType = Str("movie")
    /\ LastWrite.data.season = Null

(***************************************************************************)
(* The login form, checked under Spec                                      *)
(***************************************************************************)
\* the message the form is to show for the code of a rejected sign-in
RejectionMessage(code) ==
    CASE code \in {"auth/invalid-credential", "auth/wrong-password"}
            -> MsgWrongPassword
      [] code = "auth/user-not-found" -> MsgNoSuchUser
      [] code = "auth/too-many-requests" -> MsgTooMany
      [] OTHER -> MsgGeneric

\* C16: when the sign-in call is rejected the form shows the message of
\* the error's code (wrong password for invalid-credential and
\* wrong-password, unknown user for user-not-found, rate limit for
\* too-many-requests, the generic one for any other code or none), the
\* route does not change and the form is no longer in progress.
C16_RejectedSignIn ==
    [][lastOp' = "onLoginRejected" =>
         /\ err' = RejectionMessage(signIn.code)
         /\ UNCHANGED routeVars
         /\ loading' = FALSE]_vars

\* a call was rejected for too many requests and the form shows it
C16_Witness ==
    /\ lastOp = "onLoginRejected"
    /\ err = MsgTooMany
    /\ ~loading
    /\ screen = "LoginPage"
    /\ signInCalls = 1

\* C17: a submit with a whitelisted username and an empty password leaves
\* the password validation error in the form and makes no call to the
\* sign-in service.
C17_EmptyPasswordNoCall ==
    [][(/\ lastOp' = "onLogin"
        /\ normalizeUser(username) \in Whitelisted
        /\ pass = "")
        => (/\ err' = MsgNoPassword
            /\ signInCalls' = signInCalls
            /\ signIn' = signIn
            /\ loading' = FALSE)]_vars

\* diana, typed with padding and capitals, submitted with no password
C17_Witness ==
    /\ lastOp = "onLogin"
    /\ normalizeUser(username) = U_diana
    /\ username # U_diana
    /\ pass = ""
    /\ err = MsgNoPassword
    /\ signInCalls = 0

(***************************************************************************)
(* The roulette's draws and timers                                         *)
(***************************************************************************)
\* C18: spin() called while a draw runs changes nothing: the error, the
\* winner, the highlight, the spinning flag, the sequence and final winner
\* chosen, and the timers set all stay as they were.
C18_SpinWhileSpinning ==
    [][(lastOp' = "spin" /\ spinning)
        => UNCHANGED <<rouletteErr, winner, highlight, spinning, seq,
                       startPool, timers, timeoutsRef, draws>>]_vars

\* spin() was called in the middle of the first draw, after a timer of it
\* had run
C18_Witness ==
    /\ lastOp = "spin"
    /\ spinning
    /\ draws = 1
    /\ highlight # NoCandidate
    /\ winner = NoCandidate
    /\ timers # {}
    /\ Cardinality(timers) < Len(seq) + 1

\* C19: every timer set is tracked in timeoutsRef; the timers set are those
\* of the draw started last, so none of an earlier draw can write once a
\* later one started; leaving the page cancels all of them, so none is
\* left to run after teardown; and a timer that runs is one of the draw in
\* progress on the mounted page.
C19_TimersTracked ==
    /\ [](\A t \in timers : t.id \in timeoutsRef /\ t.id[1] = draws)
    /\ [](screen # "/ruleta" => timers = {})
    /\ [][lastOp' \in {"RouletteLeave", "goToWinner"} => timers' = {}]_vars
    /\ [][lastOp' = "TimerFires"
            => (/\ screen = "/ruleta"
                /\ spinning
                /\ \E t \in timers : t.id[1] = draws /\ timers' = timers \ {t})]_vars

\* a timer of the second draw has run while that draw is in progress
C19_Witness ==
    /\ lastOp = "TimerFires"
    /\ draws = 2
    /\ spinning
    /\ timers # {}
    /\ Cardinality(timers) < Len(seq) + 1
    /\ \A t \in timers : t.id[1] = 2

\* the candidate of list that stands for the item row
HasCandidate(list, kind, row) ==
    \E j \in 1..Len(list) : list[j].kind = kind /\ list[j].id = row.id

\* C20: the pool is the plan candidates with source plans, the watch
\* candidates with source watch, and the plan candidates followed by the
\* watch candidates otherwise; with done items not included no candidate of
\* the pool has status done; with done items included every plan and every
\* watch item of the current snapshots has its candidate.
C20_PoolOfSource ==
    /\ source = "plans" => pool = planCandidates
    /\ source = "watch" => pool = watchCandidates
    /\ source \notin {"plans", "watch"} => pool = planCandidates \o watchCandidates
    /\ ~includeDone => \A i \in 1..Len(pool) : pool[i].status # "done"
    /\ includeDone =>
          /\ \A i \in 1..Len(roulettePlans) :
                HasCandidate(planCandidates, "plan", roulettePlans[i])
          /\ \A i \in 1..Len(rouletteWatch) :
                HasCandidate(watchCandidates, "watch", rouletteWatch[i])
          /\ Len(planCandidates) = Len(roulettePlans)
          /\ Len(watchCandidates) = Len(rouletteWatch)

\* both collections hold a done item, done items are left out, and the pool
\* has plan candidates followed by watch candidates
C20_Witness ==
    /\ source = "mix"
    /\ ~includeDone
    /\ \E i \in 1..Len(roulettePlans) : roulettePlans[i].status = "done"
    /\ \E i \in 1..Len(rouletteWatch) : rouletteWatch[i].status = "done"
    /\ Len(pool) = 3
    /\ pool[1].kind = "plan"
    /\ pool[3].kind = "watch"
    /\ Len(roulettePlans) + Len(rouletteWatch) = 5

(***************************************************************************)
(* Routing with the session gate, checked under SpecRouting                *)
(***************************************************************************)
\* where the chain of redirects ends: the login page with no identity, a
\* protected page with one
AtRest ==
    /\ ~authLoading
    /\ IF user = NoUser
       THEN pathname = "/login" /\ screen = "LoginPage"
       ELSE pathname \in ProtectedPages /\ screen = pathname

\* redirects still to come, at most, with auth resolved
RedirectsLeft ==
    IF AtRest THEN 0
    ELSE IF screen \in {"NavigateLogin", "NavigateWatchlist"} THEN 1
    ELSE IF screen = "NavigateRoot" THEN 2
    ELSE 3

Redirects == {"RequireAuthRedirect", "IndexRedirect", "CatchAllRedirect",
              "LoginRedirectEffect"}

\* C21: / redirects to /watchlist and a path no route matches redirects to
\* /; with auth resolved every redirect brings the end of the chain
\* nearer, so there is no loop between the login page and the gate; and
\* from every start path the chain ends, at /login with no identity and at
\* a protected page with one.
C21_RedirectsEnd ==
    /\ [][lastOp' = "IndexRedirect"
            => (pathname = "/" /\ pathname' = "/watchlist")]_vars
    /\ [][lastOp' = "CatchAllRedirect"
            => (pathname \notin GatedPaths \cup {"/login"} /\ pathname' = "/")]_vars
    /\ [][(lastOp' \in Redirects /\ ~authLoading)
            => RedirectsLeft' < RedirectsLeft]_vars
    /\ (~AtRest) ~> AtRest

\* an identity is present and the index redirect has just led to /watchlist
C21_Witness ==
    /\ lastOp = "IndexRedirect"
    /\ AtRest
    /\ user # NoUser
    /\ pathname = "/watchlist"

\* C22: when the subscription of a List Mirror reports an error, the page
\* is not loading afterwards and lists no rows, whether or not a snapshot
\* was applied before the error.
C22_SubscriptionErrorEmptyList ==
    /\ [][lastOp' = "PlansSnapshotError"
            => (~plansLoading' /\ plans' = << >>)]_vars
    /\ [][lastOp' = "GoalsSnapshotError"
            => (~goalsLoading' /\ goals' = << >>)]_vars
    /\ [][lastOp' = "WatchSnapshotError" => items' = << >>]_vars

\* the listeners a list page on screen must have: one, of its collection
ListenersOf(scr) ==
    IF scr \in ListPages THEN <<CollectionOf(scr)>> ELSE << >>

EffectRuns == {"MirrorAuthResolved", "MirrorLinkClick", "RouletteEnter",
               "RouletteLeave", "MirrorAuthStateChanged"}

\* C23: at most one listener of the list pages is live at any time, and it
\* is live only with auth resolved, an identity, and its page on screen;
\* after every mount, unmount or change of the identity the live listeners
\* are exactly the one the page on screen opened, the earlier one being
\* closed; and a snapshot is applied only through the listener of the page
\* on screen, never after its unsubscribe.
C23_OneLiveSubscription ==
    /\ [](Len(sub) <= 1)
    /\ [](sub # << >> => (~authLoading /\ user # NoUser
                            /\ sub = ListenersOf(screen)))
    /\ [][lastOp' \in EffectRuns => sub' = ListenersOf(screen')]_vars
    /\ [][lastOp' = "PlansSnapshot" => sub = ListenersOf("/planes")]_vars
    /\ [][lastOp' = "WatchSnapshot" => sub = ListenersOf("/watchlist")]_vars
    /\ [][lastOp' = "GoalsSnapshot" => sub = ListenersOf("/metas")]_vars

\* the identity changed under PlansPage after a snapshot was applied, and
\* the effect has opened its listener again
C23_Witness ==
    /\ lastOp = "MirrorAuthStateChanged"
    /\ plans # << >>
    /\ user # NoUser
    /\ sub = <<"plans">>

Elems(sq) == {sq[i] : i \in DOMAIN sq}

\* the largest pool size of SpecDraw
MaxPoolSize == 25

\* C24: the sequence a draw over a pool of N > 0 candidates generates has
\* length min(36, max(18, N + 12)), which lies between 18 and 36 and does
\* not decrease as N grows, and each of its elements is in the pool.
C24_SequenceLength ==
    /\ seq # << >> =>
          LET N == Len(startPool) IN
          /\ N > 0
          /\ Len(seq) = Min(36, Max(18, N + 12))
          /\ Len(seq) >= 18 /\ Len(seq) <= 36
          /\ Elems(seq) \subseteq Elems(startPool)
    /\ \A n, m \in 1..MaxPoolSize :
          n <= m => (Steps(n) <= Steps(m) /\ Steps(n) >= 18 /\ Steps(m) <= 36)

\* a draw over 13 candidates has just generated its 25 steps
C24_Witness ==
    /\ lastOp = "spin"
    /\ Len(startPool) = 13
    /\ Len(seq) = 25

\* round(240 * (k / (len - 1))^2): the integer nearest to the quotient, the
\* upper one of two equally near
StepEase(k, len) ==
    LET d == (len - 1) * (len - 1) IN
    CHOOSE r \in 0..240 : 2 * r * d - d <= 480 * k * k /\ 480 * k * k < 2 * r * d + d

\* the per-step delays and the times of the steps, for every length of a
\* sequence and every step 0..len-1
StepDelays == [len \in 18..36 |-> [k \in 0..(len - 1) |-> 45 + StepEase(k, len)]]

RECURSIVE SumTo(_, _)
SumTo(f, k) == IF k = 0 THEN f[0] ELSE SumTo(f, k - 1) + f[k]

StepTimes == [len \in 18..36 |-> [k \in 0..(len - 1) |-> SumTo(StepDelays[len], k)]]

\* the timers of the draw that was made last
DrawTimers == {t \in timers : t.id[1] = draws}

\* C25: the highlight steps of a draw are set for strictly increasing
\* times in sequence order, step i for the sum of the delays
\* 45 + round(240 * (i / (len - 1))^2) of the steps 0..i, the delays not
\* decreasing; the closing timer is set 80 ms after the last step; and the
\* winner is set, and spinning cleared, by a timer that fires when no
\* highlight step of the draw is left to fire.
C25_StepsInOrder ==
    /\ [](\A t, u \in DrawTimers : t.id[2] < u.id[2] => t.due < u.due)
    /\ [](\A t \in DrawTimers :
            LET len == Len(seq) IN
            IF t.end THEN /\ t.id[2] = len + 1
                          /\ t.due = StepTimes[len][len - 1] + 80
            ELSE /\ t.id[2] \in 1..len
                 /\ t.due = StepTimes[len][t.id[2] - 1]
                 /\ t.show = seq[t.id[2]])
    /\ [](\A len \in 18..36 : \A k \in 0..(len - 2) :
            StepDelays[len][k] <= StepDelays[len][k + 1])
    /\ [][(lastOp' = "spin" /\ spinning')
            => Cardinality(DrawTimers') = Len(seq') + 1]_vars
    /\ [][(lastOp' = "TimerFires" /\ (winner' # winner \/ spinning' # spinning))
            => (winner' = seq[Len(seq)] /\ ~spinning' /\ DrawTimers' = {})]_vars

\* the closing timer of a draw of 25 steps has just fired
C25_Witness ==
    /\ lastOp = "TimerFires"
    /\ Len(seq) = 25
    /\ winner # NoCandidate
    /\ ~spinning
    /\ timers = {}

\* the (media kind, external id) pair of a document of the collection
PairOf(d) == <<d.data.mediaType, d.data.tmdbId>>

\* C26: the watchlist collection holds at most one document per (media
\* kind, external id) pair, whatever add actions and snapshots came before.
C26_OneItemPerPair ==
    \A i, j \in 1..Len(watchlistDocs) :
        i # j => PairOf(watchlistDocs[i]) # PairOf(watchlistDocs[j])

\* C27: when the deleteDoc of removeGoal(id) has resolved and its
\* continuation has run, the form is not editing the goal id, whatever the
\* user loaded into the form while the delete was awaited.
C27_DeletedGoalNotEdited ==
    [][\A i \in 1..Len(writes) :
          (/\ lastOp' = "WriteResolved"
           /\ writes' = RemoveAt(writes, i)
           /\ writes[i].by = "removeGoal")
          => goalForm'.editingId # writes[i].id]_vars

\* the closing timer of the draw made last is set and has not fired
ClosingPending == \E t \in timers : t.end /\ t.id[1] = draws

\* C28: while spinning there is no winner; with a winner the roulette is
\* not spinning and the highlight is the winner; and spinning is true
\* exactly while the closing timer of the current draw is pending.
C28_RouletteState ==
    /\ spinning => winner = NoCandidate
    /\ winner # NoCandidate => (~spinning /\ highlight = winner)
    /\ spinning <=> ClosingPending

\* the closing timer of a second draw has fired
C28_Witness ==
    /\ lastOp = "TimerFires"
    /\ draws = 2
    /\ winner # NoCandidate
    /\ highlight = winner
    /\ ~spinning

\* the candidate is in the pool, as the same item (kind and id)
InPool(c, p) == \E i \in 1..Len(p) : p[i].kind = c.kind /\ p[i].id = c.id

\* C29: the winner a draw confirms is a member of the candidate pool of
\* the moment it is confirmed, also when snapshots arrived while the
\* animation ran. (That it stays in the pool while it is shown is the rest
\* of the claim, and is not needed to refute it.)
C29_WinnerInPool ==
    [][(lastOp' = "TimerFires" /\ winner = NoCandidate /\ winner' # NoCandidate)
         => InPool(winner', pool')]_vars

\* the sign-in call has settled and onLogin has not resumed yet
SignInSettled == signIn.st \in {"ok", "rejected"}

\* C30: a sign-in call is made only with none in flight and the flag
\* clear, and the flag is set while the call is in flight; a submit with
\* the flag set changes nothing; a submit that ends in a validation error
\* leaves the flag clear; and once the call has settled, accepted or
\* rejected, the flag is eventually clear.
C30_InProgressFlag ==
    /\ [](signIn.st = "pending" => loading)
    /\ [][signInCalls' # signInCalls
            => (signIn = NoCall /\ ~loading /\ loading'
                /\ signIn'.st = "pending")]_vars
    /\ [][(lastOp' = "onLogin" /\ loading) => UNCHANGED loginVars]_vars
    /\ [][(lastOp' = "onLogin" /\ ~loading /\ signInCalls' = signInCalls)
            => (~loading' /\ err' # "" /\ signIn' = NoCall)]_vars
    /\ SignInSettled ~> ~loading

\* a second sign-in call was made after the first was rejected, and its
\* rejection has cleared the flag again
C30_Witness ==
    /\ lastOp = "onLoginRejected"
    /\ signInCalls = 2
    /\ ~loading
    /\ err # ""

====
